---- MODULE Spec2Model ----
(***************************************************************************)
(* envize: profile resolution, session state and shell command generation. *)
(*                                                                         *)
(* Strings whose characters matter (variable values, rendered shell words) *)
(* are tuples of one-character strings.  A JavaScript object used as a map *)
(* (Record<string, T>) is a function whose DOMAIN is the set of its keys;  *)
(* Object.keys / Object.entries enumerate it in the order of KeyOrder.     *)
(* Variable names are ordinary names: none is a property of                *)
(* Object.prototype (constructor, toString, ...), for which obj[key] and   *)
(* "key in obj" also answer for a key the object does not own.             *)
(* The applied_at timestamp of StateData is not modelled.                  *)
(***************************************************************************)
EXTENDS Integers, Sequences, FiniteSets, TLC

\* ---------------------------------------------------------------- bounds
\* longest list of profile names handed to the StateManager or the resolver
MaxLen == 2
\* most profile names on a command line
MaxArgs == 2
\* longest variable value handed to generateExport
MaxStr == 3
\* longest rc file content, in tokens
MaxText == 3
\* most installs of the wrapper into one rc file
MaxInstalls == 2
\* most StateManager invocations begun on one state file
MaxInvocations == 3

\* ------------------------------------------------------------- universes
Names == {"p1", "p2", "p3"}
Keys == {"K1", "K2"}
KeyOrder == <<"K1", "K2">>
ShellTypes == {"bash", "zsh", "fish", "unknown"}

\* characters of a value: quote, backslash, backtick (written "BT"), dollar,
\* parentheses, and a plain character
Quote == "'"
Backslash == "\\"
Backtick == "BT"
Chars == {Quote, Backslash, Backtick, "$", "(", ")", "a"}

\* values the profile files hold
ProfileValues == {<<"a">>, <<"b">>}
\* JavaScript null (snapshot of a variable that was unset)
Null == <<"null">>

EmptyMap == <<>>

\* ------------------------------------------------------------ map helpers
\* { ...a, ...b }
Spread(a, b) == [k \in (DOMAIN a) \cup (DOMAIN b) |-> IF k \in DOMAIN b THEN b[k] ELSE a[k]]

Restrict(f, S) == [k \in S |-> f[k]]

\* Object.keys(m)
ObjectKeys(m) == SelectSeq(KeyOrder, LAMBDA k : k \in DOMAIN m)

Range(s) == {s[i] : i \in 1..Len(s)}

\* content.indexOf(token), 1-based; 0 stands for -1
IndexOf(content, token) ==
    IF \E i \in 1..Len(content) : content[i] = token
    THEN CHOOSE i \in 1..Len(content) :
            /\ content[i] = token
            /\ \A j \in 1..(i - 1) : content[j] # token
    ELSE 0

SeqsUpTo(S, n) == UNION {[1..m -> S] : m \in 0..n}

\* all maps from a subset of D to V
MapsOver(D, V) == UNION {[S -> V] : S \in SUBSET D}

\* Array.prototype.filter
RECURSIVE Filter(_, _)
Filter(s, keep) ==
    IF s = <<>> THEN <<>>
    ELSE (IF Head(s) \in keep THEN <<Head(s)>> ELSE <<>>) \o Filter(Tail(s), keep)

\* ------------------------------------------------------------------ state
VARIABLES
    localFiles,   \* project-local profile files:  name -> [exists, variables]
    globalFiles,  \* machine-wide profile files:   name -> [exists, variables]
    stateFile,    \* the session-state file: [exists, data]
    env,          \* environment of the shell (and of each envize process)
    env0,         \* environment before the first envize command
    shell,        \* dialect of the ShellAdapter
    pc,           \* position inside the shell wrapper function
    out,          \* statements printed by the last --emit-shell run
    last          \* the last operation: its name, arguments and result

vars == <<localFiles, globalFiles, stateFile, env, env0, shell, pc, out, last>>

NoFile == [exists |-> FALSE, variables |-> EmptyMap]
File(v) == [exists |-> TRUE, variables |-> v]

\* ----------------------------------------------------------- ProfileStore
\* loadProfile looking in the global directory first
loadProfile_GlobalFirst(local, global, name) ==
    IF global[name].exists
    THEN [exists |-> TRUE, name |-> name, isLocal |-> FALSE, variables |-> global[name].variables]
    ELSE IF local[name].exists
    THEN [exists |-> TRUE, name |-> name, isLocal |-> TRUE, variables |-> local[name].variables]
    ELSE [exists |-> FALSE, name |-> name, isLocal |-> FALSE, variables |-> EmptyMap]

\* loadProfile: local first, then global, else null (exists = FALSE)
loadProfile(local, global, name) ==
    IF local[name].exists
    THEN [exists |-> TRUE, name |-> name, isLocal |-> TRUE, variables |-> local[name].variables]
    ELSE IF global[name].exists
    THEN [exists |-> TRUE, name |-> name, isLocal |-> FALSE, variables |-> global[name].variables]
    ELSE [exists |-> FALSE, name |-> name, isLocal |-> FALSE, variables |-> EmptyMap]

profileExists(local, global, name) == loadProfile(local, global, name).exists

\* names in the order of localeCompare
NameOrder == <<"p1", "p2", "p3">>

\* the @description of a profile file ("" when it has none)
DescriptionOf(file) == IF "description" \in DOMAIN file THEN file.description ELSE ""

\* the ProfileListItem of a file
ListItem(name, isLocal, file) ==
    [name |-> name, isLocal |-> isLocal, description |-> DescriptionOf(file),
     variableCount |-> Cardinality(DOMAIN file.variables)]

\* the Map of listProfiles after the loop over one directory
ItemsOf(dir, isLocal) ==
    [name \in {n \in Names : dir[n].exists} |-> ListItem(name, isLocal, dir[name])]

\* Array.from(profiles.values()).sort(by name)
SortByName(profiles) ==
    LET names == SelectSeq(NameOrder, LAMBDA n : n \in DOMAIN profiles)
    IN  [i \in 1..Len(names) |-> profiles[names[i]]]

\* listProfiles with the local directory read first and overridden by the
\* global one
listProfiles_GlobalWins(local, global) ==
    SortByName(Spread(ItemsOf(local, TRUE), ItemsOf(global, FALSE)))

\* listProfiles: the global entries, overridden by the local entries of the
\* same name, sorted by name
listProfiles(local, global) ==
    SortByName(Spread(ItemsOf(global, FALSE), ItemsOf(local, TRUE)))

\* deleteProfile deleting the file in both directories
deleteProfile_Both(local, global, name) ==
    [local |-> [local EXCEPT ![name] = NoFile],
     global |-> [global EXCEPT ![name] = NoFile],
     result |-> local[name].exists \/ global[name].exists]

\* deleteProfile: the local file when it exists, else the global file when
\* it exists; the directories after the call, and the value returned
deleteProfile(local, global, name) ==
    IF local[name].exists
    THEN [local |-> [local EXCEPT ![name] = NoFile], global |-> global, result |-> TRUE]
    ELSE IF global[name].exists
    THEN [local |-> local, global |-> [global EXCEPT ![name] = NoFile], result |-> TRUE]
    ELSE [local |-> local, global |-> global, result |-> FALSE]

\* saveProfile: the file of the name written in the local or the global
\* directory, whatever was there; the directories after the call
saveProfile(local, global, name, content, isLocal) ==
    IF isLocal
    THEN [local |-> [local EXCEPT ![name] = content], global |-> global]
    ELSE [local |-> local, global |-> [global EXCEPT ![name] = content]]

\* ---------------------------------------------- TemplateEngine and init
\* the registered templates, named like profiles, and the profile file that
\* a template's content makes
Templates == {"p1", "p2"}

TemplateContent(templateName) ==
    [exists |-> TRUE, variables |-> [k \in {"K2"} |-> <<"a">>],
     description |-> "template " \o templateName]

\* TemplateEngine.init: the template saved as a profile of the same name
templateInit(local, global, templateName, isLocal) ==
    saveProfile(local, global, templateName, TemplateContent(templateName), isLocal)

\* the result of a run of init: exit status and the directories afterwards
InitRun(exit, local, global) == [exit |-> exit, local |-> local, global |-> global]

\* init --template T --name N [--global]
initCommand(local, global, templateName, profileName, isLocal) ==
    LET created == templateInit(local, global, templateName, isLocal)
        renamed == saveProfile(created.local, created.global, profileName,
                               TemplateContent(templateName), isLocal)
        deleted == deleteProfile(renamed.local, renamed.global, templateName)
    IN  IF templateName \notin Templates THEN InitRun(1, local, global)
        ELSE IF profileExists(local, global, profileName) THEN InitRun(1, local, global)
        ELSE IF profileName # templateName
        THEN InitRun(0, deleted.local, deleted.global)
        ELSE InitRun(0, created.local, created.global)

\* ------------------------------------ ProfileStore: the text of a profile
\* The content of a profile file is the sequence of its lines (the result of
\* content.split('\n')), each line a sequence of characters; a variable name
\* and the words @description and @tags are one character each.
Space == " "
DQuote == "DQ"
Comma == ","
Colon == ":"
Hash == "#"
Equals == "="
AtDescription == "@description"
AtTags == "@tags"

\* String.prototype.trim
RECURSIVE TrimStart(_)
TrimStart(s) == IF s # <<>> /\ Head(s) = Space THEN TrimStart(Tail(s)) ELSE s

RECURSIVE TrimEnd(_)
TrimEnd(s) ==
    IF s # <<>> /\ s[Len(s)] = Space THEN TrimEnd(SubSeq(s, 1, Len(s) - 1)) ELSE s

Trim(s) == TrimEnd(TrimStart(s))

\* value.replace(/"/g, '\\"')
RECURSIVE EscapeDQuotes(_)
EscapeDQuotes(value) ==
    IF value = <<>> THEN <<>>
    ELSE (IF Head(value) = DQuote THEN <<Backslash, DQuote>> ELSE <<Head(value)>>)
             \o EscapeDQuotes(Tail(value))

\* tags.join(', ')
RECURSIVE JoinTags(_)
JoinTags(tags) ==
    IF tags = <<>> THEN <<>>
    ELSE IF Len(tags) = 1 THEN tags[1]
    ELSE tags[1] \o <<Comma, Space>> \o JoinTags(Tail(tags))

\* capture.split(',')
RECURSIVE SplitCommas(_, _)
SplitCommas(s, piece) ==
    IF s = <<>> THEN <<piece>>
    ELSE IF Head(s) = Comma THEN <<piece>> \o SplitCommas(Tail(s), <<>>)
    ELSE SplitCommas(Tail(s), Append(piece, Head(s)))

\* the line of one variable: quoted when the value holds a space or a quote
variableLine(key, value) ==
    IF Space \in Range(value) \/ DQuote \in Range(value) \/ Quote \in Range(value)
    THEN <<key, Equals, DQuote>> \o EscapeDQuotes(value) \o <<DQuote>>
    ELSE <<key, Equals>> \o value

RECURSIVE variableLines(_, _)
variableLines(keys, variables) ==
    IF keys = <<>> THEN <<>>
    ELSE <<variableLine(Head(keys), variables[Head(keys)])>>
             \o variableLines(Tail(keys), variables)

\* generateProfileContent: lines.join('\n') + '\n', as the list of lines
generateProfileContent(metadata, variables) ==
    LET meta == (IF metadata.description # <<>>
                 THEN <<<<Hash, Space, AtDescription, Colon, Space>> \o metadata.description>>
                 ELSE <<>>)
                \o (IF Len(metadata.tags) > 0
                    THEN <<<<Hash, Space, AtTags, Colon, Space>> \o JoinTags(metadata.tags)>>
                    ELSE <<>>)
    IN  meta \o (IF Len(meta) > 0 THEN <<<<>>>> ELSE <<>>)
             \o variableLines(ObjectKeys(variables), variables)
             \o <<<<>>>>

\* parseVariables: surrounding quotes removed, value.slice(1, -1)
stripQuotes(value) ==
    IF value # <<>>
       /\ \/ Head(value) = DQuote /\ value[Len(value)] = DQuote
          \/ Head(value) = Quote /\ value[Len(value)] = Quote
    THEN SubSeq(value, 2, Len(value) - 1)
    ELSE value

\* parseVariables: the loop over the lines
RECURSIVE parseVariablesFrom(_, _)
parseVariablesFrom(lines, variables) ==
    IF lines = <<>> THEN variables
    ELSE LET trimmed == Trim(Head(lines))
             eqIndex == IndexOf(trimmed, Equals)
             key == Trim(SubSeq(trimmed, 1, eqIndex - 1))
             value == stripQuotes(Trim(SubSeq(trimmed, eqIndex + 1, Len(trimmed))))
         IN  IF trimmed = <<>> \/ Head(trimmed) = Hash \/ eqIndex = 0 \/ key = <<>>
             THEN parseVariablesFrom(Tail(lines), variables)
             ELSE parseVariablesFrom(Tail(lines),
                                     Spread(variables, [k \in {key[1]} |-> value]))

parseVariables(content) == parseVariablesFrom(content, EmptyMap)

\* trimmed.match(/^#\s*@word[:\s]+(.+)$/i): whether it matches, and group 1
MetaMatch(trimmed, word) ==
    LET afterHash == IF trimmed # <<>> /\ Head(trimmed) = Hash
                     THEN TrimStart(Tail(trimmed)) ELSE <<>>
        rest == IF afterHash # <<>> /\ Head(afterHash) = word THEN Tail(afterHash) ELSE <<>>
        separators == {n \in 1..Len(rest) : \A i \in 1..n : rest[i] \in {Colon, Space}}
        n == IF separators = {} THEN 0
             ELSE CHOOSE m \in separators : \A o \in separators : o <= m
    IN  IF n = 0 \/ (n = Len(rest) /\ n < 2)
        THEN [matched |-> FALSE, group |-> <<>>]
        ELSE IF n = Len(rest)
        THEN [matched |-> TRUE, group |-> <<rest[n]>>]
        ELSE [matched |-> TRUE, group |-> SubSeq(rest, n + 1, Len(rest))]

\* split(',').map(t => t.trim()).filter(Boolean)
tagList(group) ==
    LET pieces == SplitCommas(group, <<>>)
    IN  SelectSeq([i \in 1..Len(pieces) |-> Trim(pieces[i])], LAMBDA t : t # <<>>)

\* parseMetadata: the loop over the lines
RECURSIVE parseMetadataFrom(_, _, _)
parseMetadataFrom(lines, description, tags) ==
    IF lines = <<>> THEN [description |-> description, tags |-> tags]
    ELSE LET trimmed == Trim(Head(lines))
             descMatch == MetaMatch(trimmed, AtDescription)
             tagsMatch == MetaMatch(trimmed, AtTags)
         IN  IF descMatch.matched
             THEN parseMetadataFrom(Tail(lines), Trim(descMatch.group), tags)
             ELSE IF tagsMatch.matched
             THEN parseMetadataFrom(Tail(lines), description, tags \o tagList(tagsMatch.group))
             ELSE parseMetadataFrom(Tail(lines), description, tags)

parseMetadata(content) == parseMetadataFrom(content, <<>>, <<>>)

\* -------------------------------------------------------- ProfileResolver
\* mergeProfile keeping the value and source already in the map
mergeProfile_FirstWins(profile, variables, variableSources) ==
    [variables |->
        Spread([k \in DOMAIN profile.variables |->
                   [value |-> profile.variables[k], source |-> profile.name]],
               variables),
     variableSources |->
        Spread(variableSources,
               [k \in DOMAIN profile.variables |->
                   (IF k \in DOMAIN variableSources THEN variableSources[k] ELSE <<>>)
                       \o <<profile.name>>])]

\* mergeProfile replacing the map by the profile's own variables
mergeProfile_Replace(profile, variables, variableSources) ==
    [variables |->
        [k \in DOMAIN profile.variables |->
            [value |-> profile.variables[k], source |-> profile.name]],
     variableSources |->
        Spread(variableSources,
               [k \in DOMAIN profile.variables |->
                   (IF k \in DOMAIN variableSources THEN variableSources[k] ELSE <<>>)
                       \o <<profile.name>>])]

\* mergeProfile: push the profile's name on each key's source list, and
\* overwrite the key with {value, source: profile.name}
mergeProfile(profile, variables, variableSources) ==
    [variables |->
        Spread(variables,
               [k \in DOMAIN profile.variables |->
                   [value |-> profile.variables[k], source |-> profile.name]]),
     variableSources |->
        Spread(variableSources,
               [k \in DOMAIN profile.variables |->
                   (IF k \in DOMAIN variableSources THEN variableSources[k] ELSE <<>>)
                       \o <<profile.name>>])]

\* conflict detection loop: one entry per key with more than one source
RECURSIVE detectConflicts(_, _)
detectConflicts(keys, variableSources) ==
    IF keys = <<>> THEN <<>>
    ELSE LET variable == Head(keys)
             sources == variableSources[variable]
         IN  (IF Len(sources) > 1
              THEN <<[variable |-> variable, profiles |-> sources,
                      winner |-> sources[Len(sources)]]>>
              ELSE <<>>) \o detectConflicts(Tail(keys), variableSources)

Failure(message) ==
    [ok |-> FALSE, error |-> message, variables |-> EmptyMap, conflicts |-> <<>>]

\* the loop of resolve skipping the names that do not load
RECURSIVE resolveFrom_SkipMissing(_, _, _, _, _, _)
resolveFrom_SkipMissing(local, global, profileNames, i, variables, variableSources) ==
    IF i > Len(profileNames)
    THEN [ok |-> TRUE, error |-> "", variables |-> variables,
          conflicts |-> detectConflicts(ObjectKeys(variableSources), variableSources)]
    ELSE LET profile == loadProfile(local, global, profileNames[i])
             m == mergeProfile(profile, variables, variableSources)
         IN  resolveFrom_SkipMissing(local, global, profileNames, i + 1,
                                     m.variables, m.variableSources)

\* the loop of resolve over profileNames, from position i
RECURSIVE resolveFrom(_, _, _, _, _, _)
resolveFrom(local, global, profileNames, i, variables, variableSources) ==
    IF i > Len(profileNames)
    THEN [ok |-> TRUE, error |-> "", variables |-> variables,
          conflicts |-> detectConflicts(ObjectKeys(variableSources), variableSources)]
    ELSE LET profile == loadProfile(local, global, profileNames[i])
         IN  IF ~profile.exists
             THEN Failure("Profile not found: " \o profileNames[i])
             ELSE LET m == mergeProfile(profile, variables, variableSources)
                  IN  resolveFrom(local, global, profileNames, i + 1,
                                  m.variables, m.variableSources)

resolve(local, global, profileNames) ==
    resolveFrom(local, global, profileNames, 1, EmptyMap, EmptyMap)

\* the loop of resolveProfiles over the loaded profiles, from position i
RECURSIVE resolveProfilesFrom(_, _, _, _)
resolveProfilesFrom(profiles, i, variables, variableSources) ==
    IF i > Len(profiles)
    THEN [variables |-> variables,
          conflicts |-> detectConflicts(ObjectKeys(variableSources), variableSources)]
    ELSE LET m == mergeProfile(profiles[i], variables, variableSources)
         IN  resolveProfilesFrom(profiles, i + 1, m.variables, m.variableSources)

\* resolveProfiles merging the profiles from the last to the first
resolveProfiles_Reversed(profiles) ==
    resolveProfilesFrom([i \in 1..Len(profiles) |-> profiles[Len(profiles) + 1 - i]], 1,
                        EmptyMap, EmptyMap)

resolveProfiles(profiles) == resolveProfilesFrom(profiles, 1, EmptyMap, EmptyMap)

\* diff comparing the whole EnvVariable, source included
diff_BySource(current, next) ==
    [toSet |->
        [key \in {k \in DOMAIN next : k \notin DOMAIN current \/ current[k] # next[k]}
            |-> next[key].value],
     toUnset |-> SelectSeq(ObjectKeys(current), LAMBDA key : key \notin DOMAIN next)]

\* diff: the keys of next that current lacks or holds with another value,
\* with next's value, and the keys of current that next lacks
diff(current, next) ==
    [toSet |->
        [key \in {k \in DOMAIN next :
                     k \notin DOMAIN current \/ current[k].value # next[k].value}
            |-> next[key].value],
     toUnset |-> SelectSeq(ObjectKeys(current), LAMBDA key : key \notin DOMAIN next)]

\* computeRemoval keeping the current value and source of a kept key
computeRemoval_KeepCurrent(local, global, currentVariables, remainingProfileNames) ==
    LET remaining == IF Len(remainingProfileNames) > 0
                     THEN resolve(local, global, remainingProfileNames)
                     ELSE [ok |-> TRUE, error |-> "", variables |-> EmptyMap,
                           conflicts |-> <<>>]
        kept == {k \in DOMAIN currentVariables : k \in DOMAIN remaining.variables}
    IN  IF ~remaining.ok
        THEN [ok |-> FALSE, error |-> remaining.error, toUnset |-> <<>>, toKeep |-> EmptyMap]
        ELSE [ok |-> TRUE, error |-> "",
              toUnset |-> SelectSeq(ObjectKeys(currentVariables), LAMBDA k : k \notin kept),
              toKeep |-> Restrict(currentVariables, kept)]

\* computeRemoval partitioning by the recorded source of each variable,
\* without resolving the remaining profiles again
computeRemoval_BySource(local, global, currentVariables, remainingProfileNames) ==
    LET kept == {k \in DOMAIN currentVariables :
                    currentVariables[k].source \in Range(remainingProfileNames)}
    IN  IF \E i \in 1..Len(remainingProfileNames) :
              ~profileExists(local, global, remainingProfileNames[i])
        THEN [ok |-> FALSE, error |-> "Profile not found", toUnset |-> <<>>,
              toKeep |-> EmptyMap]
        ELSE [ok |-> TRUE, error |-> "",
              toUnset |-> SelectSeq(ObjectKeys(currentVariables), LAMBDA k : k \notin kept),
              toKeep |-> Restrict(currentVariables, kept)]

\* computeRemoval: partition currentVariables by a fresh resolve of the
\* remaining names (not resolved at all when the list is empty)
computeRemoval(local, global, currentVariables, remainingProfileNames) ==
    LET remaining == IF Len(remainingProfileNames) > 0
                     THEN resolve(local, global, remainingProfileNames)
                     ELSE [ok |-> TRUE, error |-> "", variables |-> EmptyMap,
                           conflicts |-> <<>>]
        kept == {k \in DOMAIN currentVariables : k \in DOMAIN remaining.variables}
    IN  IF ~remaining.ok
        THEN [ok |-> FALSE, error |-> remaining.error, toUnset |-> <<>>, toKeep |-> EmptyMap]
        ELSE [ok |-> TRUE, error |-> "",
              toUnset |-> SelectSeq(ObjectKeys(currentVariables), LAMBDA k : k \notin kept),
              toKeep |-> Restrict(remaining.variables, kept)]

\* ----------------------------------------------------------- StateManager
\* getEmptyState
getEmptyState == [active_profiles |-> <<>>, variables |-> EmptyMap, snapshot |-> EmptyMap]

NoStateFile == [exists |-> FALSE, data |-> getEmptyState]

\* contents of a state file that are not a persisted StateData: text that
\* JSON.parse rejects, and the JSON texts null and {}
Garbage == [text |-> "invalid json"]
JsonNull == [json |-> "null"]
EmptyObject == [json |-> "{}"]

IsGarbage(data) == "text" \in DOMAIN data
IsNull(data) == "json" \in DOMAIN data /\ data.json = "null"

\* load: the empty state when the file is absent or JSON.parse throws, else
\* the parsed value, whatever its shape
load(file) ==
    IF ~file.exists THEN getEmptyState
    ELSE IF IsGarbage(file.data) THEN getEmptyState
    ELSE file.data

\* obj[field] of a parsed value throws a TypeError when the value is null
ReadThrows(obj) == IsNull(obj)

\* obj[field] is undefined: the object has no such property
Undefined(obj, field) == field \notin DOMAIN obj

\* { ...obj[field] }: the empty object when obj[field] is undefined
SpreadField(obj, field) == IF Undefined(obj, field) THEN EmptyMap ELSE obj[field]

\* update throws where it reads a property of null
updateThrows(file) == ReadThrows(load(file))

\* addProfiles throws where it reads a property of null, or spreads an
\* undefined active_profiles into an array
addProfilesThrows(file) ==
    ReadThrows(load(file)) \/ Undefined(load(file), "active_profiles")

\* removeProfiles throws where it reads a property of null, or calls filter
\* on an undefined active_profiles
removeProfilesThrows(file) ==
    ReadThrows(load(file)) \/ Undefined(load(file), "active_profiles")

\* save: whole-file overwrite
save(state) == [exists |-> TRUE, data |-> state]

\* process.env[key] ?? null
envOrNull(environ, key) == IF key \in DOMAIN environ THEN environ[key] ELSE Null

\* the snapshot loop without the capture: the loaded snapshot is only copied
captureSnapshot_NoCapture(snapshot, environ, variables) == snapshot

\* the snapshot loop without the "key in snapshot" test: every key of
\* variables is captured again
captureSnapshot_Recapture(snapshot, environ, variables) ==
    [key \in (DOMAIN snapshot) \cup (DOMAIN variables) |->
        IF key \in DOMAIN variables THEN envOrNull(environ, key) ELSE snapshot[key]]

\* the snapshot loop shared by update and addProfiles: copy the loaded
\* snapshot, and capture process.env for each key of variables not in it
captureSnapshot(snapshot, environ, variables) ==
    [key \in (DOMAIN snapshot) \cup (DOMAIN variables) |->
        IF key \in DOMAIN snapshot THEN snapshot[key] ELSE envOrNull(environ, key)]

\* update keeping the loaded profiles and variables under the new ones
update_KeepPrevious(file, environ, profiles, variables) ==
    LET currentState == load(file)
    IN  [active_profiles |-> currentState.active_profiles \o profiles,
         variables |-> Spread(SpreadField(currentState, "variables"), variables),
         snapshot |-> captureSnapshot(SpreadField(currentState, "snapshot"), environ,
                                      variables)]

\* update: the state it saves and returns
update(file, environ, profiles, variables) ==
    LET currentState == load(file)
    IN  [active_profiles |-> profiles,
         variables |-> variables,
         snapshot |-> captureSnapshot(SpreadField(currentState, "snapshot"), environ,
                                      variables)]

\* clear: the state it saves and returns
clear == getEmptyState

\* the push loop without the includes test
pushNew_Always(profiles, profilesToAdd) == profiles \o profilesToAdd

\* the de-duplicating push loop of addProfiles
RECURSIVE pushNew(_, _)
pushNew(profiles, profilesToAdd) ==
    IF profilesToAdd = <<>> THEN profiles
    ELSE pushNew(IF Head(profilesToAdd) \in Range(profiles)
                 THEN profiles
                 ELSE Append(profiles, Head(profilesToAdd)),
                 Tail(profilesToAdd))

\* addProfiles: the state it saves and returns
addProfiles(file, environ, profilesToAdd, newVariables) ==
    LET currentState == load(file)
    IN  [active_profiles |-> pushNew(currentState.active_profiles, profilesToAdd),
         variables |-> Spread(SpreadField(currentState, "variables"), newVariables),
         snapshot |-> captureSnapshot(SpreadField(currentState, "snapshot"), environ,
                                      newVariables)]

\* removeProfiles without the delete loop over variablesToUnset
removeProfiles_KeepSnapshot(file, profilesToRemove, remainingVariables, variablesToUnset) ==
    LET currentState == load(file)
    IN  [active_profiles |->
            Filter(currentState.active_profiles, Names \ Range(profilesToRemove)),
         variables |-> remainingVariables,
         snapshot |-> SpreadField(currentState, "snapshot")]

\* removeProfiles: the state it saves and returns
removeProfiles(file, profilesToRemove, remainingVariables, variablesToUnset) ==
    LET currentState == load(file)
    IN  [active_profiles |->
            Filter(currentState.active_profiles, Names \ Range(profilesToRemove)),
         variables |-> remainingVariables,
         snapshot |->
            Restrict(SpreadField(currentState, "snapshot"),
                     (DOMAIN SpreadField(currentState, "snapshot"))
                         \ Range(variablesToUnset))]

\* ----------------------------------------------------------- ShellAdapter
\* sanitizeForShell: each ' becomes '\''
RECURSIVE sanitizeForShell(_)
sanitizeForShell(value) ==
    IF value = <<>> THEN <<>>
    ELSE (IF Head(value) = Quote
          THEN <<Quote, Backslash, Quote, Quote>>
          ELSE <<Head(value)>>) \o sanitizeForShell(Tail(value))

\* A statement (one line of text) is [cmd, key, word]: the dialect's
\* command, the variable name and the rendered value word ('...').
\* generateExport
generateExport(sh, key, value) ==
    [cmd |-> IF sh = "fish" THEN "set -gx" ELSE "export",
     key |-> key,
     word |-> <<Quote>> \o sanitizeForShell(value) \o <<Quote>>]

\* generateUnset
generateUnset(sh, key) ==
    [cmd |-> IF sh = "fish" THEN "set -e" ELSE "unset", key |-> key, word |-> <<>>]

\* generateExports: one line per entry of variables, joined with newlines
RECURSIVE exportLines(_, _, _)
exportLines(sh, keys, variables) ==
    IF keys = <<>> THEN <<>>
    ELSE <<generateExport(sh, Head(keys), variables[Head(keys)])>>
             \o exportLines(sh, Tail(keys), variables)

generateExports(sh, variables) == exportLines(sh, ObjectKeys(variables), variables)

\* generateUnsets: one line per name, joined with newlines
RECURSIVE generateUnsets(_, _)
generateUnsets(sh, variables) ==
    IF variables = <<>> THEN <<>>
    ELSE <<generateUnset(sh, Head(variables))>> \o generateUnsets(sh, Tail(variables))

\* generateCommands with the exports rendered before the unsets
generateCommands_ExportsFirst(sh, toSet, toUnset) ==
    (IF DOMAIN toSet # {} THEN generateExports(sh, toSet) ELSE <<>>)
        \o (IF Len(toUnset) > 0 THEN generateUnsets(sh, toUnset) ELSE <<>>)

\* generateCommands: the unsets (when any), then the exports (when any)
generateCommands(sh, toSet, toUnset) ==
    (IF Len(toUnset) > 0 THEN generateUnsets(sh, toUnset) ELSE <<>>)
        \o (IF DOMAIN toSet # {} THEN generateExports(sh, toSet) ELSE <<>>)

\* ---------------------------------- ShellAdapter: the block in the rc file
\* The content of an rc file is a sequence of tokens: a newline, a plain
\* character, the text of the wrapper function, and each marker line taken
\* as one token (its length is the token's length, 1).
NL == "NL"
StartMarker == "# >>> envize initialize >>>"
EndMarker == "# <<< envize initialize <<<"
WrapperText == "envize() { ... }"
TextTokens == {NL, "x", StartMarker, EndMarker}

\* replace(/\n+$/, '')
RECURSIVE StripTrailingNewlines(_)
StripTrailingNewlines(s) ==
    IF s # <<>> /\ s[Len(s)] = NL
    THEN StripTrailingNewlines(SubSeq(s, 1, Len(s) - 1))
    ELSE s

\* replace(/^\n+/, '')
RECURSIVE StripLeadingNewlines(_)
StripLeadingNewlines(s) ==
    IF s # <<>> /\ Head(s) = NL THEN StripLeadingNewlines(Tail(s)) ELSE s

getFullWrapperBlock == <<StartMarker, NL, WrapperText, NL, EndMarker>>

isWrapperInstalled(content) == IndexOf(content, StartMarker) # 0

\* removeWrapper: cut from the first start marker to the first end marker
removeWrapper(content) ==
    LET startIndex == IndexOf(content, StartMarker)
        endIndex == IndexOf(content, EndMarker)
    IN  IF startIndex = 0 THEN content
        ELSE IF endIndex = 0 THEN content
        ELSE LET before == StripTrailingNewlines(SubSeq(content, 1, startIndex - 1))
                 after == StripLeadingNewlines(SubSeq(content, endIndex + 1, Len(content)))
             IN  before
                     \o (IF before # <<>> /\ after # <<>> THEN <<NL, NL>> ELSE <<>>)
                     \o after

\* addWrapper: remove the block, then append a separator, the block, a newline
addWrapper(content) ==
    LET cleaned == removeWrapper(content)
        separator == IF cleaned # <<>> /\ cleaned[Len(cleaned)] = NL
                     THEN <<NL>> ELSE <<NL, NL>>
    IN  cleaned \o separator \o getFullWrapperBlock \o <<NL>>

\* ------------------------------------------- the shell evaluating the text
\* eval "$output" in the wrapper function.  A word is read under the
\* quoting rules of the shell: inside single quotes a POSIX shell (bash,
\* zsh) takes every character literally up to the next quote, while fish
\* also reads \' and \\ as escapes; outside quotes a backslash escapes the
\* next character, and $, ` and parentheses are interpreted (expansion or
\* command substitution; a syntax error where the shell has no such form).
\* Result: ok (the word is well formed), interpreted (some part of it was
\* expanded or executed), value (the characters assigned).
RECURSIVE readWord(_, _, _, _, _, _)
readWord(fish, w, i, quoted, interpreted, acc) ==
    IF i > Len(w)
    THEN [ok |-> ~quoted, interpreted |-> interpreted, value |-> acc]
    ELSE IF quoted
    THEN IF w[i] = Quote
         THEN readWord(fish, w, i + 1, FALSE, interpreted, acc)
         ELSE IF fish /\ w[i] = Backslash /\ i < Len(w) /\ w[i + 1] \in {Quote, Backslash}
         THEN readWord(fish, w, i + 2, TRUE, interpreted, Append(acc, w[i + 1]))
         ELSE readWord(fish, w, i + 1, TRUE, interpreted, Append(acc, w[i]))
    ELSE IF w[i] = Quote
         THEN readWord(fish, w, i + 1, TRUE, interpreted, acc)
         ELSE IF w[i] = Backslash
         THEN IF i < Len(w)
              THEN readWord(fish, w, i + 2, FALSE, interpreted, Append(acc, w[i + 1]))
              ELSE [ok |-> FALSE, interpreted |-> interpreted, value |-> acc]
         ELSE IF w[i] = "$" \/ (w[i] = Backtick /\ ~fish) \/ (w[i] \in {"(", ")"} /\ fish)
         THEN readWord(fish, w, i + 1, FALSE, TRUE, acc)
         ELSE IF w[i] \in {"(", ")"}
         THEN [ok |-> FALSE, interpreted |-> interpreted, value |-> acc]
         ELSE readWord(fish, w, i + 1, FALSE, interpreted, Append(acc, w[i]))

evalWord(sh, w) == readWord(sh = "fish", w, 1, FALSE, FALSE, <<>>)

\* one statement evaluated in the environment environ
evalLine(sh, line, environ) ==
    IF line.cmd \in {"unset", "set -e"}
    THEN Restrict(environ, (DOMAIN environ) \ {line.key})
    ELSE LET r == evalWord(sh, line.word)
         IN  IF r.ok THEN Spread(environ, [k \in {line.key} |-> r.value]) ELSE environ

\* the statements of a text evaluated in order
RECURSIVE evalText(_, _, _)
evalText(sh, text, environ) ==
    IF text = <<>> THEN environ
    ELSE evalText(sh, Tail(text), evalLine(sh, Head(text), environ))

\* --------------------------------------------------------------- commands
\* One run of a command in one output mode ("emit-shell", "emit-human" or
\* "default").  Result: exit status, text printed on stdout for eval, the
\* state file after the run, and the message shown to the user.
Message(kind, profiles, nUnset, nRestored) ==
    [kind |-> kind, profiles |-> profiles, unset |-> nUnset, restored |-> nRestored]

NoMessage == Message("none", <<>>, 0, 0)

Run(exit, text, file, human) ==
    [exit |-> exit, text |-> text, file |-> file, human |-> human]

\* the validation loop of use and add: the first name that does not exist
RECURSIVE firstMissing(_, _, _)
firstMissing(local, global, profileNames) ==
    IF profileNames = <<>> THEN ""
    ELSE IF ~profileExists(local, global, Head(profileNames)) THEN Head(profileNames)
    ELSE firstMissing(local, global, Tail(profileNames))

\* the validation loop printing its error but exiting with status 0
failRun_ExitZero(file, mode, message) ==
    Run(0, <<>>, file, IF mode = "emit-shell" THEN NoMessage ELSE Message(message, <<>>, 0, 0))

\* exit through the catch block or the validation loop
failRun(file, mode, message) ==
    Run(1, <<>>, file, IF mode = "emit-shell" THEN NoMessage ELSE Message(message, <<>>, 0, 0))

\* use whose --emit-human run updates the state like the default run
useCommand_HumanSaves(local, global, file, environ, sh, mode, profileNames) ==
    LET missing == firstMissing(local, global, profileNames)
        resolved == resolve(local, global, profileNames)
        currentVars == load(file).variables
        toSet == [key \in DOMAIN resolved.variables |-> resolved.variables[key].value]
        toUnset == SelectSeq(ObjectKeys(currentVars),
                             LAMBDA key : key \notin DOMAIN resolved.variables)
        newFile == save(update(file, environ, profileNames, resolved.variables))
        human == Message("activation", profileNames, 0, 0)
    IN  IF missing # "" THEN failRun(file, mode, "Profile not found: " \o missing)
        ELSE IF ~resolved.ok THEN Run(1, <<>>, file, Message(resolved.error, <<>>, 0, 0))
        ELSE IF mode = "emit-shell"
        THEN Run(0, generateCommands(sh, toSet, toUnset), newFile, NoMessage)
        ELSE Run(0, <<>>, newFile, human)

\* use <profiles...>
useCommand(local, global, file, environ, sh, mode, profileNames) ==
    LET missing == firstMissing(local, global, profileNames)
        resolved == resolve(local, global, profileNames)
        currentVars == load(file).variables
        toSet == [key \in DOMAIN resolved.variables |-> resolved.variables[key].value]
        toUnset == SelectSeq(ObjectKeys(currentVars),
                             LAMBDA key : key \notin DOMAIN resolved.variables)
        newFile == save(update(file, environ, profileNames, resolved.variables))
        human == Message("activation", profileNames, 0, 0)
    IN  IF missing # "" THEN failRun(file, mode, "Profile not found: " \o missing)
        ELSE IF ~resolved.ok THEN Run(1, <<>>, file, Message(resolved.error, <<>>, 0, 0))
        ELSE IF mode = "emit-shell"
        THEN Run(0, generateCommands(sh, toSet, toUnset), newFile, NoMessage)
        ELSE IF mode = "emit-human" THEN Run(0, <<>>, file, human)
        ELSE Run(0, <<>>, newFile, human)

\* add <profiles...>
addCommand(local, global, file, environ, sh, mode, profileNames) ==
    LET missing == firstMissing(local, global, profileNames)
        currentState == load(file)
        currentProfiles == currentState.active_profiles
        newProfiles == Filter(profileNames, Names \ Range(currentProfiles))
        allProfiles == currentProfiles \o newProfiles
        resolved == resolve(local, global, allProfiles)
        changed == {key \in DOMAIN resolved.variables :
                       \/ key \notin DOMAIN currentState.variables
                       \/ currentState.variables[key].value # resolved.variables[key].value}
        toSet == [key \in changed |-> resolved.variables[key].value]
        newFile == save(addProfiles(file, environ, newProfiles, resolved.variables))
        human == Message("add", newProfiles, 0, 0)
    IN  IF missing # "" THEN failRun(file, mode, "Profile not found: " \o missing)
        ELSE IF Len(newProfiles) = 0
        THEN Run(0, <<>>, file,
                 IF mode = "emit-shell" THEN NoMessage
                 ELSE Message("All specified profiles are already active", <<>>, 0, 0))
        ELSE IF ~resolved.ok THEN Run(1, <<>>, file, Message(resolved.error, <<>>, 0, 0))
        ELSE IF mode = "emit-shell"
        THEN Run(0, generateExports(sh, toSet), newFile, NoMessage)
        ELSE IF mode = "emit-human" THEN Run(0, <<>>, file, human)
        ELSE Run(0, <<>>, newFile, human)

\* remove <profiles...>
removeCommand(local, global, file, environ, sh, mode, profileNames) ==
    LET currentState == load(file)
        currentProfiles == currentState.active_profiles
        toRemove == Filter(profileNames, Range(currentProfiles))
        remainingProfiles == Filter(currentProfiles, Names \ Range(toRemove))
        removal == computeRemoval(local, global, currentState.variables, remainingProfiles)
        changed == {key \in DOMAIN removal.toKeep :
                       /\ key \in DOMAIN currentState.variables
                       /\ currentState.variables[key].value # removal.toKeep[key].value}
        toSet == [key \in changed |-> removal.toKeep[key].value]
        newFile == save(removeProfiles(file, toRemove, removal.toKeep, removal.toUnset))
        human == Message("remove", toRemove, Len(removal.toUnset), 0)
    IN  IF Len(toRemove) = 0
        THEN Run(0, <<>>, file,
                 IF mode = "emit-shell" THEN NoMessage
                 ELSE Message("None of the specified profiles are active", <<>>, 0, 0))
        ELSE IF ~removal.ok THEN Run(1, <<>>, file, Message(removal.error, <<>>, 0, 0))
        ELSE IF mode = "emit-shell"
        THEN Run(0, generateCommands(sh, toSet, removal.toUnset), newFile, NoMessage)
        ELSE IF mode = "emit-human" THEN Run(0, <<>>, file, human)
        ELSE Run(0, <<>>, newFile, human)

\* reset unsetting every variable, whatever the snapshot holds
resetCommand_UnsetAll(file, sh, mode) ==
    LET state == load(file)
        toUnset == ObjectKeys(state.variables)
        human == Message("reset", <<>>, Len(toUnset), 0)
    IN  IF Len(state.active_profiles) = 0
        THEN Run(0, <<>>, file,
                 IF mode = "emit-shell" THEN NoMessage
                 ELSE Message("No active profiles to reset", <<>>, 0, 0))
        ELSE IF mode = "emit-shell"
        THEN Run(0, generateUnsets(sh, toUnset), save(clear), NoMessage)
        ELSE IF mode = "emit-human" THEN Run(0, <<>>, file, human)
        ELSE Run(0, <<>>, save(clear), human)

\* reset
resetCommand(file, sh, mode) ==
    LET state == load(file)
        unsetKeys == {key \in DOMAIN state.variables :
                         key \notin DOMAIN state.snapshot \/ state.snapshot[key] = Null}
        toUnset == SelectSeq(ObjectKeys(state.variables), LAMBDA key : key \in unsetKeys)
        toRestore == [key \in (DOMAIN state.variables) \ unsetKeys |-> state.snapshot[key]]
        restoredCount == Cardinality(DOMAIN toRestore)
        human == Message("reset", <<>>, Len(toUnset), restoredCount)
    IN  IF Len(state.active_profiles) = 0
        THEN Run(0, <<>>, file,
                 IF mode = "emit-shell" THEN NoMessage
                 ELSE Message("No active profiles to reset", <<>>, 0, 0))
        ELSE IF mode = "emit-shell"
        THEN Run(0, generateUnsets(sh, toUnset) \o generateExports(sh, toRestore),
                 save(clear), NoMessage)
        ELSE IF mode = "emit-human" THEN Run(0, <<>>, file, human)
        ELSE Run(0, <<>>, save(clear), human)

\* refresh that goes on with the active profiles that still exist
refreshCommand_SkipMissing(local, global, file, environ, sh, mode) ==
    LET currentState == load(file)
        profileNames == SelectSeq(currentState.active_profiles,
                                  LAMBDA name : profileExists(local, global, name))
        resolved == resolve(local, global, profileNames)
        toSet == [key \in DOMAIN resolved.variables |-> resolved.variables[key].value]
        toUnset == SelectSeq(ObjectKeys(currentState.variables),
                             LAMBDA key : key \notin DOMAIN resolved.variables)
        newFile == save(update(file, environ, profileNames, resolved.variables))
        human == Message("refresh", profileNames, 0, 0)
    IN  IF Len(currentState.active_profiles) = 0
        THEN Run(0, <<>>, file,
                 IF mode = "emit-shell" THEN NoMessage
                 ELSE Message("No active profiles to refresh", <<>>, 0, 0))
        ELSE IF mode = "emit-shell"
        THEN Run(0, generateCommands(sh, toSet, toUnset), newFile, NoMessage)
        ELSE IF mode = "emit-human" THEN Run(0, <<>>, file, human)
        ELSE Run(0, <<>>, newFile, human)

\* refresh
refreshCommand(local, global, file, environ, sh, mode) ==
    LET currentState == load(file)
        profileNames == currentState.active_profiles
        missingProfiles == SelectSeq(profileNames,
                                     LAMBDA name : ~profileExists(local, global, name))
        resolved == resolve(local, global, profileNames)
        toSet == [key \in DOMAIN resolved.variables |-> resolved.variables[key].value]
        toUnset == SelectSeq(ObjectKeys(currentState.variables),
                             LAMBDA key : key \notin DOMAIN resolved.variables)
        newFile == save(update(file, environ, profileNames, resolved.variables))
        human == Message("refresh", profileNames, 0, 0)
    IN  IF Len(profileNames) = 0
        THEN Run(0, <<>>, file,
                 IF mode = "emit-shell" THEN NoMessage
                 ELSE Message("No active profiles to refresh", <<>>, 0, 0))
        ELSE IF Len(missingProfiles) > 0
        THEN Run(1, <<>>, file,
                 IF mode = "emit-shell" THEN NoMessage
                 ELSE Message("Some profiles no longer exist", missingProfiles, 0, 0))
        ELSE IF ~resolved.ok THEN Run(1, <<>>, file, Message(resolved.error, <<>>, 0, 0))
        ELSE IF mode = "emit-shell"
        THEN Run(0, generateCommands(sh, toSet, toUnset), newFile, NoMessage)
        ELSE IF mode = "emit-human" THEN Run(0, <<>>, file, human)
        ELSE Run(0, <<>>, newFile, human)

\* the result of a run of rm: exit status and the directories afterwards
RmRun(exit, local, global) == [exit |-> exit, local |-> local, global |-> global]

\* rm that warns about an active profile and goes on
rmCommand_WarnOnly(local, global, file, name, force, confirmed) ==
    LET deleted == deleteProfile(local, global, name)
    IN  IF ~loadProfile(local, global, name).exists THEN RmRun(1, local, global)
        ELSE IF ~force /\ ~confirmed THEN RmRun(0, local, global)
        ELSE RmRun(IF deleted.result THEN 0 ELSE 1, deleted.local, deleted.global)

\* rm [--force] <name>; confirmed: stdin is no terminal, or the answer is yes
rmCommand(local, global, file, name, force, confirmed) ==
    LET activeProfiles == load(file).active_profiles
        deleted == deleteProfile(local, global, name)
    IN  IF ~loadProfile(local, global, name).exists THEN RmRun(1, local, global)
        ELSE IF name \in Range(activeProfiles) /\ ~force THEN RmRun(1, local, global)
        ELSE IF ~force /\ ~confirmed THEN RmRun(0, local, global)
        ELSE RmRun(IF deleted.result THEN 0 ELSE 1, deleted.local, deleted.global)

\* the command line dispatched to its handler
runCommand(local, global, file, environ, sh, mode, cmd, args) ==
    IF cmd = "use" THEN useCommand(local, global, file, environ, sh, mode, args)
    ELSE IF cmd = "add" THEN addCommand(local, global, file, environ, sh, mode, args)
    ELSE IF cmd = "remove" THEN removeCommand(local, global, file, environ, sh, mode, args)
    ELSE IF cmd = "refresh" THEN refreshCommand(local, global, file, environ, sh, mode)
    ELSE resetCommand(file, sh, mode)

\* ================================================================ inputs
\* argument lists of profile names; a command line is any non-empty list of
\* at most MaxArgs names, and the list that names p1 again after p2 (the
\* commands take their names from process.argv without de-duplicating them)
NameLists == SeqsUpTo(Names, MaxLen)
CommandLines == (SeqsUpTo(Names, MaxArgs) \ {<<>>}) \cup {<<"p1", "p2", "p1">>}

\* profile stores of the command-level specification: p1 and p2 set K1 (to
\* different values), p2 and p3 set K2, and p3 may be absent
CliStores ==
    {[n \in Names |-> IF n \in absent THEN NoFile
                      ELSE IF n = "p1" THEN File([k \in {"K1"} |-> <<"a">>])
                      ELSE IF n = "p2" THEN File([k \in Keys |-> <<"b">>])
                      ELSE File([k \in {"K2"} |-> <<"a">>])] : absent \in {{}, {"p3"}}}

\* profile files of the resolver specification
ResolverFiles == {NoFile, File(EmptyMap), File([k \in {"K1"} |-> <<"a">>]),
                  File([k \in {"K1"} |-> <<"b">>]), File([k \in {"K2"} |-> <<"a">>]),
                  File([k \in Keys |-> IF k = "K1" THEN <<"a">> ELSE <<"b">>])}

\* the environment before envize touches it: each key unset or set
Environments ==
    {[k \in S |-> IF k = "K1" THEN <<"o">> ELSE <<Quote>>] : S \in SUBSET Keys}

\* resolved variables handed to the StateManager and to computeRemoval
EnvVariables == {[value |-> <<"a">>, source |-> "p1"], [value |-> <<"b">>, source |-> "p2"]}
VariableMaps ==
    {m \in MapsOver(Keys, EnvVariables) : "K2" \in DOMAIN m => m["K2"].source = "p2"}
KeyLists == {ObjectKeys(m) : m \in MapsOver(Keys, {0})}

Idle == [op |-> "none"]

\* position in the wrapper function: at the prompt, or between its two runs
AtIdle == [at |-> "idle", cmd |-> "", args |-> <<>>]

\* =========================================== specification of the commands
\* the shell session: commands run through the wrapper function
InitCLI ==
    /\ localFiles = [n \in Names |-> NoFile]
    /\ globalFiles \in CliStores
    /\ stateFile = NoStateFile
    /\ env \in Environments
    /\ env0 = env
    /\ shell \in {"bash", "fish"}
    /\ pc = AtIdle
    /\ out = <<>>
    /\ last = [op |-> "none", exit |-> 0, human |-> NoMessage, clean |-> TRUE]

\* output="$(command envize "$@" --emit-shell)"; on status 0, eval "$output"
WrapperEmitShell(cmd, args) ==
    /\ pc = AtIdle
    /\ \E r \in {runCommand(localFiles, globalFiles, stateFile, env, shell, "emit-shell",
                            cmd, args)} :
        /\ stateFile' = r.file
        /\ out' = r.text
        /\ env' = IF r.exit = 0 THEN evalText(shell, r.text, env) ELSE env
        /\ pc' = [at |-> IF r.exit = 0 THEN "human" ELSE "fallback", cmd |-> cmd, args |-> args]
        /\ last' = [op |-> cmd, exit |-> r.exit, human |-> NoMessage,
                    clean |-> last.clean /\ r.exit = 0]
    /\ UNCHANGED <<localFiles, globalFiles, env0, shell>>

Use == \E names \in CommandLines : WrapperEmitShell("use", names)

Add == \E names \in CommandLines : WrapperEmitShell("add", names)

Remove == \E names \in CommandLines : WrapperEmitShell("remove", names)

Reset == WrapperEmitShell("reset", <<>>)

\* command envize "$@" --emit-human 1>&2
WrapperEmitHuman ==
    /\ pc.at = "human"
    /\ \E r \in {runCommand(localFiles, globalFiles, stateFile, env, shell, "emit-human",
                            pc.cmd, pc.args)} :
        /\ stateFile' = r.file
        /\ last' = [last EXCEPT !.human = r.human]
    /\ pc' = AtIdle
    /\ UNCHANGED <<localFiles, globalFiles, env, env0, shell, out>>

\* command envize "$@" 1>&2   (the --emit-shell run exited non-zero)
WrapperFallback ==
    /\ pc.at = "fallback"
    /\ \E r \in {runCommand(localFiles, globalFiles, stateFile, env, shell, "default",
                            pc.cmd, pc.args)} :
        /\ stateFile' = r.file
        /\ last' = [last EXCEPT !.human = r.human]
    /\ pc' = AtIdle
    /\ UNCHANGED <<localFiles, globalFiles, env, env0, shell, out>>

\* envize refresh: not one of the subcommands the wrapper function
\* intercepts, so it runs once, in default mode, and nothing is evaluated
Refresh ==
    /\ pc = AtIdle
    /\ \E r \in {runCommand(localFiles, globalFiles, stateFile, env, shell, "default",
                            "refresh", <<>>)} :
        /\ stateFile' = r.file
        /\ last' = [op |-> "refresh", exit |-> r.exit, human |-> r.human,
                    clean |-> last.clean /\ r.exit = 0]
    /\ UNCHANGED <<localFiles, globalFiles, env, env0, shell, pc, out>>

NextCLI ==
    Use \/ Add \/ Remove \/ Reset \/ Refresh \/ WrapperEmitHuman \/ WrapperFallback

SpecCLI == InitCLI /\ [][NextCLI]_vars

\* ======================================= specification of the StateManager
\* calls of the StateManager with any arguments, in a process whose
\* environment changes between the calls
InitSM ==
    /\ localFiles = [n \in Names |-> NoFile]
    /\ globalFiles = [n \in Names |-> NoFile]
    /\ stateFile = NoStateFile
    /\ env \in MapsOver(Keys, {<<"o">>})
    /\ env0 = EmptyMap
    /\ shell = "bash"
    /\ pc = AtIdle
    /\ out = <<>>
    /\ last = Idle

\* what a StateManager call leaves alone, beside the position of its caller
SMFrame == UNCHANGED <<localFiles, globalFiles, env, env0, shell, out>>

\* what a call leaves in last: its name, whether it threw, what it returned
Returned(op, state) == [op |-> op, threw |-> FALSE, result |-> state]
Thrown(op) == [op |-> op, threw |-> TRUE, result |-> getEmptyState]

\* update that also assigns each variable's value to process.env
Update_ExportsToEnv(profiles, variables) ==
    /\ ~updateThrows(stateFile)
    /\ stateFile' = save(update(stateFile, env, profiles, variables))
    /\ last' = Returned("update", stateFile'.data)
    /\ env' = Spread(env, [k \in DOMAIN variables |-> variables[k].value])
    /\ UNCHANGED <<localFiles, globalFiles, env0, shell, out>>

Update(profiles, variables) ==
    /\ IF updateThrows(stateFile)
       THEN stateFile' = stateFile /\ last' = Thrown("update")
       ELSE /\ stateFile' = save(update(stateFile, env, profiles, variables))
            /\ last' = Returned("update", stateFile'.data)
    /\ SMFrame

AddProfiles(profilesToAdd, newVariables) ==
    /\ IF addProfilesThrows(stateFile)
       THEN stateFile' = stateFile /\ last' = Thrown("addProfiles")
       ELSE /\ stateFile' = save(addProfiles(stateFile, env, profilesToAdd, newVariables))
            /\ last' = Returned("addProfiles", stateFile'.data)
    /\ SMFrame

RemoveProfiles(profilesToRemove, remainingVariables, variablesToUnset) ==
    /\ IF removeProfilesThrows(stateFile)
       THEN stateFile' = stateFile /\ last' = Thrown("removeProfiles")
       ELSE /\ stateFile' = save(removeProfiles(stateFile, profilesToRemove,
                                                remainingVariables, variablesToUnset))
            /\ last' = Returned("removeProfiles", stateFile'.data)
    /\ SMFrame

\* clear returning the empty state without saving it
Clear_NoSave ==
    /\ stateFile' = stateFile
    /\ last' = Returned("clear", clear)
    /\ SMFrame

Clear ==
    /\ stateFile' = save(clear)
    /\ last' = Returned("clear", stateFile'.data)
    /\ SMFrame

\* the environment of the process changes between two calls
EnvChange ==
    /\ env' \in MapsOver(Keys, {<<"o">>})
    /\ env' # env
    /\ last' = [op |-> "env"]
    /\ UNCHANGED <<localFiles, globalFiles, stateFile, env0, shell, pc, out>>

SMNames == SeqsUpTo({"p1", "p2"}, MaxLen)

DoUpdate ==
    \E profiles \in SMNames, variables \in VariableMaps :
        Update(profiles, variables) /\ UNCHANGED pc

DoAddProfiles ==
    \E profiles \in SMNames, variables \in VariableMaps :
        AddProfiles(profiles, variables) /\ UNCHANGED pc

DoRemoveProfiles ==
    \E profiles \in SMNames, variables \in VariableMaps, keys \in KeyLists :
        RemoveProfiles(profiles, variables, keys) /\ UNCHANGED pc

DoClear == Clear /\ UNCHANGED pc

\* update and addProfiles only
NextUA == DoUpdate \/ DoAddProfiles \/ EnvChange

SpecUA == InitSM /\ [][NextUA]_vars

\* every mutating operation
NextSM == DoUpdate \/ DoAddProfiles \/ DoRemoveProfiles \/ DoClear \/ EnvChange

SpecSM == InitSM /\ [][NextSM]_vars

\* =========================================== specification of the resolver
\* resolve and computeRemoval applied to a store, a list of names and a map
\* of current variables drawn at the start
ResolverStores ==
    {[n \in Names |-> IF n = "p1" THEN f ELSE NoFile] :
        f \in {NoFile, File([k \in {"K1"} |-> <<"b">>])}}

InitResolver ==
    /\ localFiles \in ResolverStores
    /\ globalFiles \in [Names -> ResolverFiles]
    /\ stateFile = NoStateFile
    /\ env = EmptyMap
    /\ env0 = EmptyMap
    /\ shell = "bash"
    /\ pc = AtIdle
    /\ out = <<>>
    /\ \E names \in NameLists, current \in VariableMaps :
           last = [op |-> "input", names |-> names, current |-> current]

PureFrame == UNCHANGED <<localFiles, globalFiles, stateFile, env, env0, shell, pc, out>>

Resolve ==
    /\ last.op = "input"
    /\ last' = [op |-> "resolve", names |-> last.names, current |-> last.current,
                result |-> resolve(localFiles, globalFiles, last.names)]
    /\ PureFrame

ComputeRemoval ==
    /\ last.op = "input"
    /\ last' = [op |-> "computeRemoval", names |-> last.names, current |-> last.current,
                result |-> computeRemoval(localFiles, globalFiles, last.current, last.names)]
    /\ PureFrame

\* resolver.resolveProfiles on the profiles the store loads for the names
\* (a Profile[] holds no null: every name exists)
ResolveProfiles ==
    /\ last.op = "input"
    /\ \A i \in 1..Len(last.names) : profileExists(localFiles, globalFiles, last.names[i])
    /\ last' = [op |-> "resolveProfiles", names |-> last.names, current |-> last.current,
                result |->
                    resolveProfiles([i \in 1..Len(last.names) |->
                                        loadProfile(localFiles, globalFiles, last.names[i])])]
    /\ PureFrame

NextResolver == Resolve \/ ComputeRemoval \/ ResolveProfiles

SpecResolver == InitResolver /\ [][NextResolver]_vars

\* ======================= specification of a session with changing files
\* commands run in a bash session while profile files are written and deleted
FileArguments == {<<"p1">>, <<"p2">>, <<"p1", "p2">>}
EditedFiles == {File([k \in {"K1"} |-> <<"b">>]), File([k \in {"K2"} |-> <<"a">>])}
RefreshModes == {"emit-shell", "emit-human", "default"}

InitFiles ==
    /\ localFiles \in {[n \in Names |-> NoFile],
                       [n \in Names |-> IF n = "p1" THEN File([k \in {"K2"} |-> <<"b">>])
                                        ELSE NoFile]}
    /\ globalFiles = [n \in Names |-> IF n = "p1" THEN File([k \in {"K1"} |-> <<"a">>])
                                      ELSE IF n = "p2" THEN File([k \in Keys |-> <<"b">>])
                                      ELSE NoFile]
    /\ stateFile = NoStateFile
    /\ env \in {EmptyMap, [k \in {"K2"} |-> <<"o">>]}
    /\ env0 = env
    /\ shell = "bash"
    /\ pc = AtIdle
    /\ out = <<>>
    /\ last = [op |-> "none", exit |-> 0, human |-> NoMessage, clean |-> TRUE]

FilesUse == \E names \in FileArguments : WrapperEmitShell("use", names)

FilesAdd == \E names \in FileArguments : WrapperEmitShell("add", names)

\* envize refresh with one of its flags, the output of --emit-shell evaluated
RefreshRun(mode) ==
    /\ pc = AtIdle
    /\ \E r \in {refreshCommand(localFiles, globalFiles, stateFile, env, shell, mode)} :
        /\ stateFile' = r.file
        /\ out' = IF mode = "emit-shell" THEN r.text ELSE out
        /\ env' = IF mode = "emit-shell" /\ r.exit = 0
                  THEN evalText(shell, r.text, env) ELSE env
        /\ last' = [op |-> "refresh", exit |-> r.exit, human |-> r.human,
                    clean |-> last.clean /\ r.exit = 0, mode |-> mode]
    /\ UNCHANGED <<localFiles, globalFiles, env0, shell, pc>>

DoRefresh == \E mode \in RefreshModes : RefreshRun(mode)

\* envize rm [--force] <name>
Rm(name, force, confirmed) ==
    /\ pc = AtIdle
    /\ \E r \in {rmCommand(localFiles, globalFiles, stateFile, name, force, confirmed)} :
        /\ localFiles' = r.local
        /\ globalFiles' = r.global
        /\ last' = [op |-> "rm", exit |-> r.exit, human |-> NoMessage,
                    clean |-> last.clean /\ r.exit = 0, name |-> name, force |-> force]
    /\ UNCHANGED <<stateFile, env, env0, shell, pc, out>>

DoRm == \E name \in Names, force \in BOOLEAN, confirmed \in BOOLEAN : Rm(name, force, confirmed)

\* a profile file written in the global directory (envize edit, an editor)
EditProfile(name, content) ==
    /\ pc = AtIdle
    /\ globalFiles' = saveProfile(localFiles, globalFiles, name, content, FALSE).global
    /\ last' = [op |-> "edit", exit |-> 0, human |-> NoMessage, clean |-> last.clean]
    /\ UNCHANGED <<localFiles, stateFile, env, env0, shell, pc, out>>

DoEditProfile == \E name \in {"p1", "p2"}, content \in EditedFiles : EditProfile(name, content)

NextFiles ==
    FilesUse \/ FilesAdd \/ WrapperEmitHuman \/ WrapperFallback \/ DoRefresh \/ DoRm
        \/ DoEditProfile

SpecFiles == InitFiles /\ [][NextFiles]_vars

\* ===================================== specification of the ProfileStore
\* loadProfile, listProfiles and deleteProfile on local and global
\* directories whose files are drawn at the start
StoreFiles ==
    {NoFile,
     [exists |-> TRUE, variables |-> [k \in {"K1"} |-> <<"a">>], description |-> "d1"],
     [exists |-> TRUE, variables |-> [k \in Keys |-> <<"b">>], description |-> "d2"]}

InitStore ==
    /\ localFiles \in [Names -> StoreFiles]
    /\ globalFiles \in [Names -> StoreFiles]
    /\ stateFile = NoStateFile
    /\ env = EmptyMap
    /\ env0 = EmptyMap
    /\ shell = "bash"
    /\ pc = AtIdle
    /\ out = <<>>
    /\ last = Idle

StoreFrame == UNCHANGED <<stateFile, env, env0, shell, pc, out>>

LoadProfile(name) ==
    /\ last' = [op |-> "loadProfile", name |-> name,
                result |-> loadProfile(localFiles, globalFiles, name)]
    /\ UNCHANGED <<localFiles, globalFiles>>
    /\ StoreFrame

ListProfiles ==
    /\ last' = [op |-> "listProfiles", name |-> "",
                result |-> listProfiles(localFiles, globalFiles)]
    /\ UNCHANGED <<localFiles, globalFiles>>
    /\ StoreFrame

DeleteProfile(name) ==
    /\ \E r \in {deleteProfile(localFiles, globalFiles, name)} :
          /\ localFiles' = r.local
          /\ globalFiles' = r.global
          /\ last' = [op |-> "deleteProfile", name |-> name, result |-> r.result]
    /\ StoreFrame

DoLoadProfile == \E name \in Names : LoadProfile(name)

DoDeleteProfile == \E name \in Names : DeleteProfile(name)

\* envize init --template T [--name N] [--global]
InitProfile(templateName, profileName, isLocal) ==
    /\ \E r \in {initCommand(localFiles, globalFiles, templateName, profileName, isLocal)} :
          /\ localFiles' = r.local
          /\ globalFiles' = r.global
          /\ last' = [op |-> "init", name |-> profileName, result |-> r.exit = 0,
                      template |-> templateName, isLocal |-> isLocal]
    /\ StoreFrame

DoInitProfile ==
    \E templateName \in Names, profileName \in Names, isLocal \in BOOLEAN :
        InitProfile(templateName, profileName, isLocal)

NextStore == DoLoadProfile \/ ListProfiles \/ DoDeleteProfile \/ DoInitProfile

SpecStore == InitStore /\ [][NextStore]_vars

\* ============================ specification of rendering and parsing
\* generateProfileContent applied to a description, a tag list and a
\* variable map drawn at the start, and its text parsed back
ValueChars == {"a", Space, Quote, DQuote}
Descriptions == SeqsUpTo({"d", Space, Colon}, 2)
TagNames == SeqsUpTo({"t", Comma}, 2)
RenderVariables ==
    {[k \in {"K1"} |-> value] : value \in SeqsUpTo(ValueChars, MaxStr)}
    \cup {[k \in Keys |-> IF k = "K1" THEN value ELSE <<"a">>] :
             value \in SeqsUpTo(ValueChars, 1)}
    \cup {EmptyMap}

RenderInputs ==
    {[description |-> d, tags |-> <<<<"t">>>>, variables |-> [k \in {"K1"} |-> <<"a">>]] :
        d \in Descriptions}
    \cup {[description |-> <<"d">>, tags |-> tags, variables |-> [k \in {"K1"} |-> <<"a">>]] :
             tags \in SeqsUpTo(TagNames, 2)}
    \cup {[description |-> d, tags |-> tags, variables |-> variables] :
             d \in {<<>>, <<"d">>}, tags \in {<<>>, <<<<"t">>, <<"t", "t">>>>},
             variables \in RenderVariables}

NoContent == <<>>

InitRender ==
    /\ localFiles = [n \in Names |-> NoFile]
    /\ globalFiles = [n \in Names |-> NoFile]
    /\ stateFile = NoStateFile
    /\ env = EmptyMap
    /\ env0 = EmptyMap
    /\ shell = "bash"
    /\ pc = AtIdle
    /\ out = NoContent
    /\ \E input \in RenderInputs :
           last = [op |-> "input", input |-> input,
                   parsed |-> [description |-> <<>>, tags |-> <<>>, variables |-> EmptyMap]]

\* store.generateProfileContent(metadata, variables)
GenerateProfileContent ==
    /\ last.op = "input"
    /\ out' = generateProfileContent([description |-> last.input.description,
                                      tags |-> last.input.tags], last.input.variables)
    /\ last' = [last EXCEPT !.op = "rendered"]
    /\ UNCHANGED <<localFiles, globalFiles, stateFile, env, env0, shell, pc>>

\* parseVariables(content) and parseMetadata(content)
ParseContent ==
    /\ last.op = "rendered"
    /\ last' = [last EXCEPT !.op = "parsed",
                            !.parsed = [description |-> parseMetadata(out).description,
                                        tags |-> parseMetadata(out).tags,
                                        variables |-> parseVariables(out)]]
    /\ UNCHANGED <<localFiles, globalFiles, stateFile, env, env0, shell, pc, out>>

NextRender == GenerateProfileContent \/ ParseContent

SpecRender == InitRender /\ [][NextRender]_vars

\* ================================================== specification of diff
\* diff applied to two variable maps drawn at the start
DiffVariables == [value : ProfileValues, source : {"p1", "p2"}]

DiffMaps == MapsOver(Keys, DiffVariables)

InitDiff ==
    /\ localFiles = [n \in Names |-> NoFile]
    /\ globalFiles = [n \in Names |-> NoFile]
    /\ stateFile = NoStateFile
    /\ env = EmptyMap
    /\ env0 = EmptyMap
    /\ shell = "bash"
    /\ pc = AtIdle
    /\ out = <<>>
    /\ \E current \in DiffMaps, next \in DiffMaps :
           last = [op |-> "input", current |-> current, next |-> next,
                   result |-> [toSet |-> EmptyMap, toUnset |-> <<>>]]

\* resolver.diff(current, next): the arguments are only read
Diff ==
    /\ last.op = "input"
    /\ last' = [op |-> "diff", current |-> last.current, next |-> last.next,
                result |-> diff(last.current, last.next)]
    /\ PureFrame

NextDiff == Diff

SpecDiff == InitDiff /\ [][NextDiff]_vars

\* ======================================= specification of the ShellAdapter
\* generateExport and generateCommands applied to inputs drawn at the start,
\* and their text evaluated by the shell
ShellValues == {<<"a">>, <<"b">>, <<Quote>>}

ShellInputs ==
    {[op |-> "input", fn |-> "generateExport", key |-> key, value |-> value,
      toSet |-> EmptyMap, toUnset |-> <<>>] :
        key \in Keys, value \in SeqsUpTo(Chars, MaxStr)}
    \cup
    {[op |-> "input", fn |-> "generateCommands", key |-> "", value |-> <<>>,
      toSet |-> toSet, toUnset |-> toUnset] :
        toSet \in MapsOver(Keys, ShellValues), toUnset \in SeqsUpTo(Keys, MaxLen)}

InitShell ==
    /\ localFiles = [n \in Names |-> NoFile]
    /\ globalFiles = [n \in Names |-> NoFile]
    /\ stateFile = NoStateFile
    /\ env \in Environments
    /\ env0 = env
    /\ shell \in ShellTypes
    /\ pc = AtIdle
    /\ out = <<>>
    /\ last \in ShellInputs

ShellFrame == UNCHANGED <<localFiles, globalFiles, stateFile, env0, shell, pc>>

GenerateExport ==
    /\ last.op = "input" /\ last.fn = "generateExport"
    /\ out' = <<generateExport(shell, last.key, last.value)>>
    /\ last' = [last EXCEPT !.op = "generated"]
    /\ UNCHANGED env
    /\ ShellFrame

GenerateCommands ==
    /\ last.op = "input" /\ last.fn = "generateCommands"
    /\ out' = generateCommands(shell, last.toSet, last.toUnset)
    /\ last' = [last EXCEPT !.op = "generated"]
    /\ UNCHANGED env
    /\ ShellFrame

\* eval "$output"
Evaluate ==
    /\ last.op = "generated"
    /\ env' = evalText(shell, out, env)
    /\ last' = [last EXCEPT !.op = "evaluated"]
    /\ UNCHANGED out
    /\ ShellFrame

NextShell == GenerateExport \/ GenerateCommands \/ Evaluate

SpecShell == InitShell /\ [][NextShell]_vars

\* ==================================== specification of the wrapper install
\* addWrapper (envize install) and removeWrapper applied to an rc file whose
\* content is drawn at the start; last.rc is the content of the file, last.prev its content before
\* the last operation
RcContents == SeqsUpTo(TextTokens, MaxText)

InitWrapper ==
    /\ localFiles = [n \in Names |-> NoFile]
    /\ globalFiles = [n \in Names |-> NoFile]
    /\ stateFile = NoStateFile
    /\ env = EmptyMap
    /\ env0 = EmptyMap
    /\ shell = "bash"
    /\ pc = AtIdle
    /\ out = <<>>
    /\ \E content \in RcContents :
          last = [op |-> "input", prevOp |-> "input", rc |-> content, prev |-> content,
                  installs |-> 0]

\* writeFile(rcPath, adapter.addWrapper(rcContent))
AddWrapper ==
    /\ last.installs < MaxInstalls
    /\ last' = [op |-> "addWrapper", prevOp |-> last.op, rc |-> addWrapper(last.rc),
                prev |-> last.rc, installs |-> last.installs + 1]
    /\ UNCHANGED <<localFiles, globalFiles, stateFile, env, env0, shell, pc, out>>

\* removeWrapper applied to the content of the file
RemoveWrapper ==
    /\ last.op # "removeWrapper"
    /\ last' = [op |-> "removeWrapper", prevOp |-> last.op, rc |-> removeWrapper(last.rc),
                prev |-> last.rc, installs |-> last.installs]
    /\ UNCHANGED <<localFiles, globalFiles, stateFile, env, env0, shell, pc, out>>

NextWrapper == AddWrapper \/ RemoveWrapper

SpecWrapper == InitWrapper /\ [][NextWrapper]_vars

\* ======================= specification of one recorded StateManager call
\* any sequence of StateManager calls in a process whose environment holds
\* K1 and not K2, then one call whose arguments, and the state loaded before
\* it, are kept in pc
InitCall ==
    /\ localFiles = [n \in Names |-> NoFile]
    /\ globalFiles = [n \in Names |-> NoFile]
    /\ stateFile = NoStateFile
    /\ env = [k \in {"K1"} |-> <<"o">>]
    /\ env0 = EmptyMap
    /\ shell = "bash"
    /\ pc = AtIdle
    /\ out = <<>>
    /\ last = Idle

Called(op, profiles, variables, keys) ==
    [at |-> "called", op |-> op, profiles |-> profiles, variables |-> variables,
     keys |-> keys, before |-> load(stateFile)]

Prepare == pc = AtIdle /\ (DoUpdate \/ DoAddProfiles \/ DoRemoveProfiles \/ DoClear)

CallUpdate ==
    /\ pc = AtIdle
    /\ \E profiles \in SMNames, variables \in VariableMaps :
          /\ Update(profiles, variables)
          /\ pc' = Called("update", profiles, variables, <<>>)

CallAddProfiles ==
    /\ pc = AtIdle
    /\ \E profiles \in SMNames, variables \in VariableMaps :
          /\ AddProfiles(profiles, variables)
          /\ pc' = Called("addProfiles", profiles, variables, <<>>)

CallRemoveProfiles ==
    /\ pc = AtIdle
    /\ \E profiles \in SMNames, variables \in VariableMaps, keys \in KeyLists :
          /\ RemoveProfiles(profiles, variables, keys)
          /\ pc' = Called("removeProfiles", profiles, variables, keys)

CallClear ==
    /\ pc = AtIdle
    /\ Clear
    /\ pc' = Called("clear", <<>>, EmptyMap, <<>>)

NextCall == Prepare \/ CallUpdate \/ CallAddProfiles \/ CallRemoveProfiles \/ CallClear

SpecCall == InitCall /\ [][NextCall]_vars

\* ============== specification of the StateManager on any state file content
\* one StateManager call on a state file whose content is drawn at the start:
\* no file, text that is not JSON, JSON that is not a StateData, or a state
StateFiles ==
    {NoStateFile, save(Garbage), save(JsonNull), save(EmptyObject),
     save([active_profiles |-> <<"p1">>,
           variables |-> [K1 |-> [value |-> <<"a">>, source |-> "p1"]],
           snapshot |-> [K1 |-> Null]])}

InitCorrupt ==
    /\ localFiles = [n \in Names |-> NoFile]
    /\ globalFiles = [n \in Names |-> NoFile]
    /\ stateFile \in StateFiles
    /\ env \in MapsOver(Keys, {<<"o">>})
    /\ env0 = EmptyMap
    /\ shell = "bash"
    /\ pc = AtIdle
    /\ out = <<>>
    /\ last = [op |-> "input"]

\* stateManager.load()
Load ==
    /\ last.op = "input"
    /\ last' = Returned("load", load(stateFile))
    /\ UNCHANGED <<stateFile, pc>>
    /\ SMFrame

FirstUpdate == last.op = "input" /\ DoUpdate

FirstAddProfiles == last.op = "input" /\ DoAddProfiles

FirstRemoveProfiles == last.op = "input" /\ DoRemoveProfiles

NextCorrupt == Load \/ FirstUpdate \/ FirstAddProfiles \/ FirstRemoveProfiles

SpecCorrupt == InitCorrupt /\ [][NextCorrupt]_vars

\* ================= specification of interleaved StateManager invocations
\* Two envize processes on one state file.  A mutating operation loads the
\* file at its start (Begin) and saves at its end (Save); nothing holds the
\* file in between.  pc[p] is the invocation process p is in: its operation,
\* its arguments, the file as its load read it, and whether the other process
\* saved since then.
Procs == {1, 2}

IdleProc ==
    [at |-> "idle", op |-> "none", profiles |-> <<>>, variables |-> EmptyMap,
     keys |-> <<>>, read |-> NoStateFile, stale |-> FALSE]

RaceNames == {<<"p1">>, <<"p2">>}
RaceVariables ==
    {[K1 |-> [value |-> <<"a">>, source |-> "p1"]],
     [K2 |-> [value |-> <<"b">>, source |-> "p2"]]}
RaceKeys == {<<>>, <<"K1">>}

Invocations ==
    {[at |-> "loaded", op |-> op, profiles |-> profiles, variables |-> variables,
      keys |-> <<>>, read |-> NoStateFile, stale |-> FALSE] :
        op \in {"update", "addProfiles"}, profiles \in RaceNames,
        variables \in RaceVariables}
    \cup
    {[at |-> "loaded", op |-> "removeProfiles", profiles |-> profiles,
      variables |-> variables, keys |-> keys, read |-> NoStateFile, stale |-> FALSE] :
        profiles \in RaceNames, variables \in RaceVariables \cup {EmptyMap},
        keys \in RaceKeys}
    \cup
    {[IdleProc EXCEPT !.at = "loaded", !.op = "clear"]}

InitRace ==
    /\ localFiles = [n \in Names |-> NoFile]
    /\ globalFiles = [n \in Names |-> NoFile]
    /\ stateFile = NoStateFile
    /\ env \in {EmptyMap, [K1 |-> <<"o">>]}
    /\ env0 = EmptyMap
    /\ shell = "bash"
    /\ pc = [p \in Procs |-> IdleProc]
    /\ out = <<>>
    /\ last = [op |-> "none", begun |-> 0, stale |-> FALSE, lost |-> <<>>]

\* const currentState = this.load()
Begin(p) ==
    /\ pc[p].at = "idle"
    /\ last.begun < MaxInvocations
    /\ \E inv \in Invocations : pc' = [pc EXCEPT ![p] = [inv EXCEPT !.read = stateFile]]
    /\ last' = [op |-> "load", begun |-> last.begun + 1, stale |-> FALSE, lost |-> <<>>]
    /\ UNCHANGED <<localFiles, globalFiles, stateFile, env, env0, shell, out>>

\* the state an invocation computes from the file its load read
Computed(inv, environ) ==
    CASE inv.op = "update" -> update(inv.read, environ, inv.profiles, inv.variables)
      [] inv.op = "addProfiles" ->
            addProfiles(inv.read, environ, inv.profiles, inv.variables)
      [] inv.op = "removeProfiles" ->
            removeProfiles(inv.read, inv.profiles, inv.variables, inv.keys)
      [] OTHER -> clear

\* a save that loads the file again and applies the operation to what is
\* there now
Save_Reload(p) ==
    /\ pc[p].at = "loaded"
    /\ stateFile' = save(Computed([pc[p] EXCEPT !.read = stateFile], env))
    /\ pc' = [q \in Procs |->
                IF q = p THEN IdleProc
                ELSE [pc[q] EXCEPT !.stale = (pc[q].at = "loaded")]]
    /\ last' = [op |-> "save", begun |-> last.begun, stale |-> pc[p].stale,
                lost |-> load(stateFile).active_profiles]
    /\ UNCHANGED <<localFiles, globalFiles, env, env0, shell, out>>

\* this.save(newState): the whole file is overwritten with the state computed
\* from the invocation's own load
Save(p) ==
    /\ pc[p].at = "loaded"
    /\ stateFile' = save(Computed(pc[p], env))
    /\ pc' = [q \in Procs |->
                IF q = p THEN IdleProc
                ELSE [pc[q] EXCEPT !.stale = (pc[q].at = "loaded")]]
    /\ last' = [op |-> "save", begun |-> last.begun, stale |-> pc[p].stale,
                lost |-> load(stateFile).active_profiles]
    /\ UNCHANGED <<localFiles, globalFiles, env, env0, shell, out>>

DoBegin == \E p \in Procs : Begin(p)

DoSave == \E p \in Procs : Save(p)

NextRace == DoBegin \/ DoSave

SpecRace == InitRace /\ [][NextRace]_vars

\* ========================= specification of interleaved command runs
\* Two envize processes (two shells) run use, add, remove and reset on one
\* state file.  A command first loads the state and computes the arguments of
\* its StateManager call (Start*); the call itself, which loads the file again
\* and saves, comes later (Finish), and the other process may run in between.
IdleCommand ==
    [at |-> "idle", call |-> "none", profiles |-> <<>>, variables |-> EmptyMap,
     keys |-> <<>>]

Computing(call, profiles, variables, keys) ==
    [at |-> "computed", call |-> call, profiles |-> profiles, variables |-> variables,
     keys |-> keys]

InitInterleave ==
    /\ localFiles = [n \in Names |-> NoFile]
    /\ globalFiles = [n \in Names |-> IF n = "p1" THEN File([k \in {"K1"} |-> <<"a">>])
                                      ELSE IF n = "p2" THEN File([k \in Keys |-> <<"b">>])
                                      ELSE NoFile]
    /\ stateFile = NoStateFile
    /\ env \in {EmptyMap, [k \in {"K1"} |-> <<"o">>]}
    /\ env0 = env
    /\ shell = "bash"
    /\ pc = [p \in Procs |-> IdleCommand]
    /\ out = <<>>
    /\ last = [op |-> "none", begun |-> 0]

\* what every Start* step does besides computing its call
Started(p, cmd, call) ==
    /\ pc[p].at = "idle"
    /\ last.begun < MaxInvocations
    /\ pc' = [pc EXCEPT ![p] = call]
    /\ last' = [op |-> cmd, begun |-> last.begun + 1]
    /\ UNCHANGED <<localFiles, globalFiles, stateFile, env, env0, shell, out>>

\* use: resolver.resolve(profileNames), up to the call of stateManager.update
StartUse(p, profileNames) ==
    LET resolved == resolve(localFiles, globalFiles, profileNames)
    IN  /\ firstMissing(localFiles, globalFiles, profileNames) = ""
        /\ resolved.ok
        /\ Started(p, "use", Computing("update", profileNames, resolved.variables, <<>>))

\* add: up to the call of stateManager.addProfiles
StartAdd(p, profileNames) ==
    LET currentProfiles == load(stateFile).active_profiles
        newProfiles == Filter(profileNames, Names \ Range(currentProfiles))
        resolved == resolve(localFiles, globalFiles, currentProfiles \o newProfiles)
    IN  /\ firstMissing(localFiles, globalFiles, profileNames) = ""
        /\ Len(newProfiles) > 0
        /\ resolved.ok
        /\ Started(p, "add", Computing("addProfiles", newProfiles, resolved.variables, <<>>))

\* remove: computeRemoval on the loaded state, up to the call of
\* stateManager.removeProfiles
StartRemove(p, profileNames) ==
    LET currentState == load(stateFile)
        toRemove == Filter(profileNames, Range(currentState.active_profiles))
        remainingProfiles == Filter(currentState.active_profiles, Names \ Range(toRemove))
        removal == computeRemoval(localFiles, globalFiles, currentState.variables,
                                  remainingProfiles)
    IN  /\ Len(toRemove) > 0
        /\ removal.ok
        /\ Started(p, "remove",
                   Computing("removeProfiles", toRemove, removal.toKeep, removal.toUnset))

\* reset: up to the call of stateManager.clear
StartReset(p) ==
    /\ Len(load(stateFile).active_profiles) > 0
    /\ Started(p, "reset", Computing("clear", <<>>, EmptyMap, <<>>))

\* the StateManager call of the command: it loads the file as it is now
Finish(p) ==
    /\ pc[p].at = "computed"
    /\ stateFile' =
          save(CASE pc[p].call = "update" ->
                      update(stateFile, env, pc[p].profiles, pc[p].variables)
                 [] pc[p].call = "addProfiles" ->
                      addProfiles(stateFile, env, pc[p].profiles, pc[p].variables)
                 [] pc[p].call = "removeProfiles" ->
                      removeProfiles(stateFile, pc[p].profiles, pc[p].variables, pc[p].keys)
                 [] OTHER -> clear)
    /\ pc' = [pc EXCEPT ![p] = IdleCommand]
    /\ last' = [op |-> pc[p].call, begun |-> last.begun]
    /\ UNCHANGED <<localFiles, globalFiles, env, env0, shell, out>>

DoStartUse == \E p \in Procs, names \in FileArguments : StartUse(p, names)

DoStartAdd == \E p \in Procs, names \in FileArguments : StartAdd(p, names)

DoStartRemove == \E p \in Procs, names \in FileArguments : StartRemove(p, names)

DoStartReset == \E p \in Procs : StartReset(p)

DoFinish == \E p \in Procs : Finish(p)

NextInterleave == DoStartUse \/ DoStartAdd \/ DoStartRemove \/ DoStartReset \/ DoFinish

SpecInterleave == InitInterleave /\ [][NextInterleave]_vars

\* ================================================================= claims
\* the names of the list, in list order, whose profile sets key k
Setters(names, k) ==
    SelectSeq(names, LAMBDA n : k \in DOMAIN loadProfile(localFiles, globalFiles, n).variables)

\* positions of the conflict entries for key k
ConflictEntries(conflicts, k) == {i \in 1..Len(conflicts) : conflicts[i].variable = k}

NoDuplicates(s) == \A i, j \in 1..Len(s) : s[i] = s[j] => i = j

\* C4: when two or more profiles of the list set a key, resolve gives the key
\* the value and source of the last of them, and conflicts has exactly one
\* entry for the key: the setters in list order, the last one as winner;
\* reversing a list of two profiles makes the other one the winner.
C4_LastProfileWins ==
    (last.op = "resolve" /\ last.result.ok) =>
        \A k \in Keys :
            LET s == Setters(last.names, k)
                w == s[Len(s)]
                r == last.result
                rev == resolve(localFiles, globalFiles, <<last.names[2], last.names[1]>>)
            IN  Len(s) >= 2 =>
                  /\ k \in DOMAIN r.variables
                  /\ r.variables[k] =
                        [value |-> loadProfile(localFiles, globalFiles, w).variables[k],
                         source |-> w]
                  /\ Cardinality(ConflictEntries(r.conflicts, k)) = 1
                  /\ \A i \in ConflictEntries(r.conflicts, k) :
                        r.conflicts[i] = [variable |-> k, profiles |-> s, winner |-> w]
                  /\ Len(last.names) = 2 =>
                        /\ rev.variables[k].source = last.names[1]
                        /\ \A i \in ConflictEntries(rev.conflicts, k) :
                              rev.conflicts[i].winner = last.names[1]

\* C4 witness: p2 then p1 set K1 to different values, and p1 (last, though
\* first in alphabetical order) wins
C4_Witness ==
    /\ last.op = "resolve" /\ last.result.ok
    /\ last.names = <<"p2", "p1">>
    /\ Len(last.result.conflicts) = 1
    /\ last.result.conflicts[1] = [variable |-> "K1", profiles |-> <<"p2", "p1">>, winner |-> "p1"]
    /\ loadProfile(localFiles, globalFiles, "p1").variables["K1"]
          # loadProfile(localFiles, globalFiles, "p2").variables["K1"]

\* positions of the names the store cannot load
MissingAt(names) == {i \in 1..Len(names) : ~profileExists(localFiles, globalFiles, names[i])}

Minimum(S) == CHOOSE i \in S : \A j \in S : i <= j

\* C7: resolve fails with 'Profile not found: <name>' for the first name in
\* list order that does not load, returns no variables and no conflicts then,
\* and succeeds only when every name loads.
C7_FailsOnFirstMissing ==
    last.op = "resolve" =>
        LET missing == MissingAt(last.names)
        IN  /\ last.result.ok <=> missing = {}
            /\ missing # {} =>
                  /\ last.result.error = "Profile not found: " \o last.names[Minimum(missing)]
                  /\ last.result.variables = EmptyMap
                  /\ last.result.conflicts = <<>>

\* C7 witness: the first name loads and sets a key, the second does not load
C7_Witness ==
    /\ last.op = "resolve"
    /\ Len(last.names) = 2
    /\ MissingAt(last.names) = {2}
    /\ DOMAIN loadProfile(localFiles, globalFiles, last.names[1]).variables # {}
    /\ ~last.result.ok

\* C8: computeRemoval puts each key of currentVariables in exactly one of
\* toKeep (with value and source of a fresh resolve of the remaining names,
\* when that resolution has the key) and toUnset (otherwise); with no
\* remaining name every key is in toUnset and nothing is raised.
C8_RemovalPartition ==
    last.op = "computeRemoval" =>
        LET fresh == resolve(localFiles, globalFiles, last.names)
            r == last.result
        IN  /\ last.names = <<>> =>
                  r.ok /\ Range(r.toUnset) = DOMAIN last.current /\ r.toKeep = EmptyMap
            /\ r.ok <=> fresh.ok
            /\ r.ok =>
                  /\ NoDuplicates(r.toUnset)
                  /\ DOMAIN r.toKeep \cup Range(r.toUnset) = DOMAIN last.current
                  /\ DOMAIN r.toKeep \cap Range(r.toUnset) = {}
                  /\ \A k \in DOMAIN last.current :
                        IF k \in DOMAIN fresh.variables
                        THEN k \in DOMAIN r.toKeep /\ r.toKeep[k] = fresh.variables[k]
                        ELSE k \in Range(r.toUnset)

\* C8 witness: K1, currently from p2, is also set by the remaining p1 with
\* another value: it is kept with p1 as source, while K2 is unset
C8_Witness ==
    /\ last.op = "computeRemoval" /\ last.result.ok
    /\ last.names = <<"p1">>
    /\ DOMAIN last.current = Keys
    /\ last.current["K1"].source = "p2"
    /\ last.result.toUnset = <<"K2">>
    /\ "K1" \in DOMAIN last.result.toKeep
    /\ last.result.toKeep["K1"].source = "p1"
    /\ last.result.toKeep["K1"].value # last.current["K1"].value

\* the persisted state
Persisted == load(stateFile)

\* C2: after any sequence of update and addProfiles calls from the empty
\* state, every key of the persisted variables is a key of the persisted
\* snapshot.
C2_VariablesHaveSnapshot == DOMAIN Persisted.variables \subseteq DOMAIN Persisted.snapshot

\* C2 witness: addProfiles has left two variables in the state
C2_Witness ==
    /\ last.op = "addProfiles"
    /\ DOMAIN Persisted.variables = Keys
    /\ Len(Persisted.active_profiles) >= 2

\* C3: an update or addProfiles call changes no snapshot entry that exists,
\* whatever the environment holds by then, and an entry it adds is the value
\* of the key in the process environment, or null when the key is unset.
C3_SnapshotCapturedOnce ==
    [][LET before == load(stateFile).snapshot
           after == load(stateFile').snapshot
       IN  /\ \A k \in DOMAIN before : k \in DOMAIN after /\ after[k] = before[k]
           /\ \A k \in (DOMAIN after) \ (DOMAIN before) :
                 after[k] = IF k \in DOMAIN env THEN env[k] ELSE Null]_vars

\* C3 witness: update has just run with K1 among its variables in an
\* environment where K1 is set, and the snapshot still says K1 was unset
C3_Witness ==
    /\ last.op = "update"
    /\ "K1" \in DOMAIN Persisted.variables
    /\ "K1" \in DOMAIN env
    /\ Persisted.snapshot["K1"] = Null

\* C6: after any sequence of update, addProfiles, removeProfiles and clear
\* calls, the persisted active_profiles holds no name twice.
C6_NoDuplicateProfiles == NoDuplicates(Persisted.active_profiles)

HasSpecial(value) ==
    \E i \in 1..Len(value) :
        \/ value[i] \in {Quote, Backtick}
        \/ value[i] = "$" /\ i < Len(value) /\ value[i + 1] = "("

\* C5: for a value with single quotes, backticks or $( sequences and each of
\* bash, zsh and fish, the statement of generateExport, evaluated by that
\* shell, is well formed, expands and executes nothing, and leaves the key
\* set to exactly the value.
C5_ExportRoundTrip ==
    (/\ last.op = "evaluated" /\ last.fn = "generateExport"
     /\ shell \in {"bash", "zsh", "fish"}
     /\ HasSpecial(last.value)) =>
        /\ evalWord(shell, out[1].word).ok
        /\ ~evalWord(shell, out[1].word).interpreted
        /\ last.key \in DOMAIN env
        /\ env[last.key] = last.value

IsUnset(line) == line.cmd \in {"unset", "set -e"}

IsExport(line) == line.cmd \in {"export", "set -gx"}

\* C10: the text of generateCommands has an unset statement per name of
\* toUnset and an export statement per key of toSet, every unset before every
\* export, so that a key in both is set to its toSet value after evaluation.
C10_UnsetsBeforeExports ==
    (last.op \in {"generated", "evaluated"} /\ last.fn = "generateCommands") =>
        /\ {out[i].key : i \in {j \in 1..Len(out) : IsUnset(out[j])}} = Range(last.toUnset)
        /\ {out[i].key : i \in {j \in 1..Len(out) : IsExport(out[j])}} = DOMAIN last.toSet
        /\ \A i, j \in 1..Len(out) : (IsUnset(out[i]) /\ IsExport(out[j])) => i < j
        /\ last.op = "evaluated" =>
              \A k \in (DOMAIN last.toSet) \cap Range(last.toUnset) :
                  k \in DOMAIN env /\ env[k] = last.toSet[k]

\* C10 witness: K1 was set, is both unset and exported, and ends with the
\* exported value
C10_Witness ==
    /\ last.op = "evaluated" /\ last.fn = "generateCommands"
    /\ "K1" \in (DOMAIN last.toSet) \cap Range(last.toUnset)
    /\ "K1" \in DOMAIN env0
    /\ env0["K1"] # last.toSet["K1"]
    /\ env["K1"] = last.toSet["K1"]

\* C1: once reset has run after successful commands only, the environment of
\* the shell is the one before the first command.
C1_ResetRestoresEnvironment == (last.op = "reset" /\ last.clean) => env = env0

\* C9: reset with an active profile prints one statement per key of the
\* persisted variables, an unset when the snapshot entry is null and else an
\* export that assigns the snapshot value, and leaves the empty state.
C9_ResetEmitsRestoration ==
    [][(pc = AtIdle /\ pc'.cmd = "reset" /\ Len(load(stateFile).active_profiles) > 0) =>
          LET state == load(stateFile)
              LinesFor(k) == {i \in 1..Len(out') : out'[i].key = k}
          IN  /\ Len(out') = Cardinality(DOMAIN state.variables)
              /\ \A k \in DOMAIN state.variables :
                    /\ k \in DOMAIN state.snapshot
                    /\ Cardinality(LinesFor(k)) = 1
                    /\ \A i \in LinesFor(k) :
                          IF state.snapshot[k] = Null
                          THEN out'[i] = [cmd |-> IF shell = "fish" THEN "set -e" ELSE "unset",
                                          key |-> k, word |-> <<>>]
                          ELSE /\ out'[i].cmd = IF shell = "fish" THEN "set -gx" ELSE "export"
                               /\ evalWord(shell, out'[i].word) =
                                     [ok |-> TRUE, interpreted |-> FALSE,
                                      value |-> state.snapshot[k]]
              /\ stateFile'.exists
              /\ load(stateFile') = getEmptyState]_vars

\* C9 witness: K1 was unset and K2 was set before envize; reset has printed
\* unset K1 and export K2='<original>' and the state is empty
C9_Witness ==
    /\ last.op = "reset"
    /\ shell = "bash"
    /\ DOMAIN env0 = {"K2"}
    /\ out = <<[cmd |-> "unset", key |-> "K1", word |-> <<>>],
               [cmd |-> "export", key |-> "K2",
                word |-> <<Quote>> \o <<Quote, Backslash, Quote, Quote>> \o <<Quote>>]>>
    /\ stateFile.exists
    /\ Persisted = getEmptyState

\* number of occurrences of a token in a content
Occurrences(content, token) == Cardinality({i \in 1..Len(content) : content[i] = token})

\* C11: installing the wrapper twice in a row leaves exactly one marked block
\* (one start marker, one end marker) and the second install returns the
\* content of the first unchanged
C11_InstallTwice ==
    (last.op = "addWrapper" /\ last.prevOp = "addWrapper")
        => /\ last.rc = last.prev
           /\ Occurrences(last.rc, StartMarker) = 1
           /\ Occurrences(last.rc, EndMarker) = 1

\* what the invocation of process p writes when it runs alone on the file
\* its load read
AloneOn(inv, environ) == save(Computed([inv EXCEPT !.stale = FALSE], environ))

IsStateData(file) ==
    file.exists /\ {"active_profiles", "variables", "snapshot"} \subseteq DOMAIN file.data

\* C13: on a state file that is absent, not parseable, or not a valid
\* persisted StateData, load returns the empty state, and update, addProfiles
\* and removeProfiles raise nothing and complete as they do on the empty state
C13_CorruptStateNeverRaised ==
    [][~IsStateData(stateFile) =>
          /\ ~last'.threw
          /\ last'.op = "load" => last'.result = getEmptyState
          /\ \A profiles \in SMNames, variables \in VariableMaps :
                /\ Update(profiles, variables) =>
                      stateFile' = save(update(NoStateFile, env, profiles, variables))
                /\ AddProfiles(profiles, variables) =>
                      stateFile' = save(addProfiles(NoStateFile, env, profiles, variables))
                /\ \A keys \in KeyLists :
                      RemoveProfiles(profiles, variables, keys) =>
                          stateFile' = save(removeProfiles(NoStateFile, profiles, variables,
                                                           keys))]_vars

StateManagerCalls == {"load", "update", "addProfiles", "removeProfiles", "clear"}

HasCalled(op) == pc.at = "called" /\ pc.op = op /\ ~last.threw

\* C15: update(profiles, variables) persists and returns a state whose
\* active_profiles is exactly profiles and whose variables is exactly
\* variables; nothing of the previous state's profiles and variables is kept
C15_UpdateReplaces ==
    HasCalled("update") =>
        /\ last.result.active_profiles = pc.profiles
        /\ last.result.variables = pc.variables
        /\ Persisted = last.result

\* C15 witness: update(<<p2>>, {K2}) on a state where p1 was active with K1
C15_Witness ==
    /\ HasCalled("update")
    /\ pc.before.active_profiles = <<"p1">>
    /\ DOMAIN pc.before.variables = {"K1"}
    /\ pc.profiles = <<"p2">>
    /\ DOMAIN pc.variables = {"K2"}
    /\ Persisted.active_profiles = <<"p2">>

\* position of the first occurrence of a name in a list
FirstAt(names, n) == Minimum({i \in 1..Len(names) : names[i] = n})

\* C16: addProfiles(newNames, newVariables) keeps the existing active_profiles
\* in their order and appends, once and in argument order, each name of
\* newNames not already present; variables is the existing map overridden by
\* newVariables on common keys, keys only in the existing map being kept
C16_AddProfilesAppends ==
    HasCalled("addProfiles") =>
        LET existing == pc.before.active_profiles
            after == last.result.active_profiles
            appended == SubSeq(after, Len(existing) + 1, Len(after))
        IN  /\ Persisted = last.result
            /\ Len(after) >= Len(existing)
            /\ SubSeq(after, 1, Len(existing)) = existing
            /\ Range(appended) = Range(pc.profiles) \ Range(existing)
            /\ NoDuplicates(appended)
            /\ \A i, j \in 1..Len(appended) :
                  i < j => FirstAt(pc.profiles, appended[i]) < FirstAt(pc.profiles, appended[j])
            /\ DOMAIN last.result.variables
                  = (DOMAIN pc.before.variables) \cup (DOMAIN pc.variables)
            /\ \A k \in DOMAIN last.result.variables :
                  last.result.variables[k]
                      = IF k \in DOMAIN pc.variables THEN pc.variables[k]
                        ELSE pc.before.variables[k]

\* C16 witness: addProfiles(<<p2, p1>>, {K1 from p1}) on a state where p2 is
\* active with K1 and K2: p1 is appended after p2, K1 is overridden, K2 kept
C16_Witness ==
    /\ HasCalled("addProfiles")
    /\ pc.before.active_profiles = <<"p2">>
    /\ DOMAIN pc.before.variables = Keys
    /\ pc.before.variables["K1"].source = "p2"
    /\ pc.profiles = <<"p2", "p1">>
    /\ DOMAIN pc.variables = {"K1"}
    /\ pc.variables["K1"].source = "p1"
    /\ Persisted.active_profiles = <<"p2", "p1">>
    /\ Persisted.variables["K1"].source = "p1"
    /\ Persisted.variables["K2"].source = "p2"

\* C17: removeProfiles(removed, remainingVariables, keysToUnset) leaves
\* active_profiles as the previous list without the removed names, in order,
\* sets variables to remainingVariables, deletes exactly the keysToUnset
\* entries of the snapshot and leaves every other snapshot entry unchanged
C17_RemoveProfilesDeletes ==
    HasCalled("removeProfiles") =>
        /\ Persisted = last.result
        /\ last.result.active_profiles
              = SelectSeq(pc.before.active_profiles, LAMBDA n : n \notin Range(pc.profiles))
        /\ last.result.variables = pc.variables
        /\ DOMAIN last.result.snapshot = (DOMAIN pc.before.snapshot) \ Range(pc.keys)
        /\ \A k \in DOMAIN last.result.snapshot :
              last.result.snapshot[k] = pc.before.snapshot[k]

\* C17 witness: removeProfiles(<<p1>>, {K2}, <<K1>>) on a state where p1 and
\* p2 are active and the snapshot holds K1 and K2
C17_Witness ==
    /\ HasCalled("removeProfiles")
    /\ pc.before.active_profiles = <<"p1", "p2">>
    /\ DOMAIN pc.before.snapshot = Keys
    /\ pc.profiles = <<"p1">>
    /\ pc.keys = <<"K1">>
    /\ DOMAIN pc.variables = {"K2"}
    /\ Persisted.active_profiles = <<"p2">>
    /\ DOMAIN Persisted.snapshot = {"K2"}

\* C18: after clear, whatever the state was before, load returns a state
\* with no active profiles, no variables and an empty snapshot
C18_ClearEmpties ==
    HasCalled("clear") =>
        /\ load(stateFile).active_profiles = <<>>
        /\ load(stateFile).variables = EmptyMap
        /\ load(stateFile).snapshot = EmptyMap

\* C18 witness: clear on a state with two active profiles, two variables and
\* two snapshot entries
C18_Witness ==
    /\ HasCalled("clear")
    /\ Len(pc.before.active_profiles) = 2
    /\ DOMAIN pc.before.variables = Keys
    /\ DOMAIN pc.before.snapshot = Keys
    /\ load(stateFile) = getEmptyState

\* every ordering of a list
Orderings(names) ==
    {[i \in 1..Len(names) |-> names[f[i]]] :
        f \in {g \in [1..Len(names) -> 1..Len(names)] :
                  \A i, j \in 1..Len(names) : g[i] = g[j] => i = j}}

\* no key is set by two entries of the list
DisjointKeys(names) == \A k \in Keys : Len(Setters(names, k)) <= 1

\* C19: when no two profiles of the list set the same key, every ordering of
\* the list resolves to the same variables map, each key has the value of,
\* and is attributed to, the only profile that sets it, and conflicts is empty
C19_DisjointOrderIndependent ==
    (last.op = "resolve" /\ last.result.ok /\ DisjointKeys(last.names)) =>
        \A ordering \in Orderings(last.names) :
            LET r == resolve(localFiles, globalFiles, ordering)
            IN  /\ r.ok
                /\ r.variables = last.result.variables
                /\ r.conflicts = <<>>
                /\ DOMAIN r.variables = {k \in Keys : Setters(last.names, k) # <<>>}
                /\ \A k \in DOMAIN r.variables :
                      LET only == Setters(last.names, k)[1]
                      IN  /\ r.variables[k].source = only
                          /\ r.variables[k].value
                                = loadProfile(localFiles, globalFiles, only).variables[k]

\* C19 witness: two different profiles, one setting only K1 and the other
\* only K2, resolved together
C19_Witness ==
    /\ last.op = "resolve" /\ last.result.ok
    /\ Len(last.names) = 2 /\ last.names[1] # last.names[2]
    /\ DisjointKeys(last.names)
    /\ Setters(last.names, "K1") = <<last.names[2]>>
    /\ Setters(last.names, "K2") = <<last.names[1]>>
    /\ DOMAIN last.result.variables = Keys

\* the names are the active profiles the current variables came from: every
\* variable is attributed to a profile of the list
ActiveFor(names, current) == \A k \in DOMAIN current : current[k].source \in Range(names)

\* computeRemoval has been applied to the active list and its variables
KeptAll == last.op = "computeRemoval" /\ last.result.ok /\ ActiveFor(last.names, last.current)

C21_DiffSetsAndUnsets ==
    [][last'.op = "diff" =>
          LET r == last'.result
          IN  /\ last'.current = last.current /\ last'.next = last.next
              /\ DOMAIN r.toSet
                    = {k \in DOMAIN last.next :
                          k \in DOMAIN last.current =>
                              last.current[k].value # last.next[k].value}
              /\ \A k \in DOMAIN r.toSet : r.toSet[k] = last.next[k].value
              /\ Range(r.toUnset) = (DOMAIN last.current) \ (DOMAIN last.next)
              /\ NoDuplicates(r.toUnset)
              /\ last.current = last.next => r.toSet = EmptyMap /\ r.toUnset = <<>>]_vars

\* C21 witness: K1 keeps its value and changes its source, K2 is dropped:
\* nothing to set, K2 to unset
C21_Witness ==
    /\ last.op = "diff"
    /\ DOMAIN last.current = Keys /\ DOMAIN last.next = {"K1"}
    /\ last.current["K1"].value = last.next["K1"].value
    /\ last.current["K1"].source # last.next["K1"].source
    /\ last.result.toSet = EmptyMap
    /\ last.result.toUnset = <<"K2">>

\* C22: for a list of names that all exist in the store, resolveProfiles
\* applied to the profiles loaded for the names, in the same order, returns
\* the variables and the conflicts that resolve returns for the names
C22_ResolveProfilesAgrees ==
    last.op = "resolveProfiles" =>
        LET byName == resolve(localFiles, globalFiles, last.names)
        IN  /\ byName.ok
            /\ last.result.variables = byName.variables
            /\ last.result.conflicts = byName.conflicts

\* C22 witness: two profiles setting K1 to different values, resolved from
\* their loaded records: one conflict, won by the second
C22_Witness ==
    /\ last.op = "resolveProfiles"
    /\ Len(last.names) = 2 /\ last.names[1] # last.names[2]
    /\ Len(last.result.conflicts) = 1
    /\ last.result.conflicts[1].variable = "K1"
    /\ last.result.conflicts[1].winner = last.names[2]
    /\ last.result.variables["K1"].value
          # loadProfile(localFiles, globalFiles, last.names[1]).variables["K1"]

\* the lines of a content that are not blank, in order
RECURSIVE NonBlankLines(_, _)
NonBlankLines(content, line) ==
    IF content = <<>> THEN (IF line = <<>> THEN <<>> ELSE <<line>>)
    ELSE IF Head(content) = NL
    THEN (IF line = <<>> THEN <<>> ELSE <<line>>) \o NonBlankLines(Tail(content), <<>>)
    ELSE NonBlankLines(Tail(content), Append(line, Head(content)))

\* the content holds a marked block: a start marker and, after it, an end
\* marker; BlockEnd is the first end marker after the first start marker
HasBlock(content) ==
    \E i, j \in 1..Len(content) :
        i < j /\ content[i] = StartMarker /\ content[j] = EndMarker

BlockEnd(content) ==
    Minimum({j \in 1..Len(content) :
                j > IndexOf(content, StartMarker) /\ content[j] = EndMarker})

\* C23: removeWrapper removes exactly the marked block: the non-blank lines
\* outside the text from the start marker to the end marker are the non-blank
\* lines of the result, in order, no marker remains, and content with no
\* marked block is returned unchanged
C23_RemoveWrapperFrame ==
    [][last'.op = "removeWrapper" =>
          IF HasBlock(last.rc)
          THEN /\ Occurrences(last'.rc, StartMarker) = 0
               /\ Occurrences(last'.rc, EndMarker) = 0
               /\ NonBlankLines(last'.rc, <<>>)
                     = NonBlankLines(SubSeq(last.rc, 1, IndexOf(last.rc, StartMarker) - 1),
                                     <<>>)
                       \o NonBlankLines(SubSeq(last.rc, BlockEnd(last.rc) + 1,
                                               Len(last.rc)), <<>>)
          ELSE last'.rc = last.rc]_vars

\* C24: loadProfile(name) returns the local profile (isLocal true) whenever a
\* local file for the name exists, otherwise the global profile (isLocal
\* false) when a global file exists, otherwise null; the global profile is
\* never returned while a local file of the same name exists
C24_LoadProfileLocalFirst ==
    last.op = "loadProfile" =>
        LET r == last.result
            l == localFiles[last.name]
            g == globalFiles[last.name]
        IN  /\ l.exists => r.exists /\ r.isLocal /\ r.variables = l.variables
            /\ (~l.exists /\ g.exists) => r.exists /\ ~r.isLocal /\ r.variables = g.variables
            /\ (~l.exists /\ ~g.exists) => ~r.exists
            /\ r.exists => r.name = last.name

\* C24 witness: the name has a local and a global file with different
\* variables, and the local one is returned
C24_Witness ==
    /\ last.op = "loadProfile"
    /\ localFiles[last.name].exists /\ globalFiles[last.name].exists
    /\ localFiles[last.name].variables # globalFiles[last.name].variables
    /\ last.result.isLocal
    /\ last.result.variables = localFiles[last.name].variables

\* C25: listProfiles returns each profile name at most once, in ascending
\* name order; for a name in both locations the entry is the local one
\* (isLocal true, the local file's description and variable count)
C25_ListProfilesLocalOverrides ==
    last.op = "listProfiles" =>
        LET items == last.result
        IN  /\ {items[i].name : i \in 1..Len(items)}
                  = {n \in Names : localFiles[n].exists \/ globalFiles[n].exists}
            /\ \A i, j \in 1..Len(items) :
                  i < j => FirstAt(NameOrder, items[i].name) < FirstAt(NameOrder, items[j].name)
            /\ \A i \in 1..Len(items) :
                  LET n == items[i].name
                      file == IF localFiles[n].exists THEN localFiles[n] ELSE globalFiles[n]
                  IN  /\ items[i].isLocal = localFiles[n].exists
                      /\ items[i].description = file.description
                      /\ items[i].variableCount = Cardinality(DOMAIN file.variables)

\* C25 witness: p2 is in both locations with different descriptions and
\* variable counts, p1 and p3 are global only; three entries, p2's is local
C25_Witness ==
    /\ last.op = "listProfiles"
    /\ Len(last.result) = 3
    /\ localFiles["p2"].exists /\ globalFiles["p2"].exists
    /\ localFiles["p2"].description # globalFiles["p2"].description
    /\ ~localFiles["p1"].exists /\ ~localFiles["p3"].exists
    /\ last.result[2].name = "p2" /\ last.result[2].isLocal
    /\ last.result[2].description = localFiles["p2"].description

\* C26: deleteProfile(name) deletes the local file when it exists, otherwise
\* the global file when it exists, never both in one call, and returns true
\* exactly when a file was deleted; with no file for the name it returns
\* false and changes nothing
C26_DeleteProfileOneFile ==
    [][last'.op = "deleteProfile" =>
          LET n == last'.name
          IN  /\ \A m \in Names \ {n} :
                    localFiles'[m] = localFiles[m] /\ globalFiles'[m] = globalFiles[m]
              /\ localFiles[n].exists =>
                    /\ ~localFiles'[n].exists
                    /\ globalFiles'[n] = globalFiles[n]
                    /\ last'.result
              /\ (~localFiles[n].exists /\ globalFiles[n].exists) =>
                    /\ ~globalFiles'[n].exists
                    /\ localFiles'[n] = localFiles[n]
                    /\ last'.result
              /\ (~localFiles[n].exists /\ ~globalFiles[n].exists) =>
                    /\ localFiles' = localFiles /\ globalFiles' = globalFiles
                    /\ ~last'.result]_vars

\* C26 witness: deleteProfile has returned true and the name's global file
\* is still there: only the local file was deleted
C26_Witness ==
    /\ last.op = "deleteProfile" /\ last.result
    /\ ~localFiles[last.name].exists
    /\ globalFiles[last.name].exists

\* C27: rendering is the inverse of parsing, for the variables: parsing the
\* text produced by generateProfileContent (parseVariables) returns the same
\* variables, including for values that contain spaces, single quotes or
\* double quotes
C27_VariablesRoundTrip ==
    last.op = "parsed" => last.parsed.variables = last.input.variables

\* what the wrapper shows after its --emit-shell run: the message of the
\* --emit-human run on the state that the --emit-shell run has left
Shown(file, environ, cmd, args) ==
    runCommand(localFiles, globalFiles, file, environ, shell, "emit-human", cmd, args).human

\* the confirmation of a change: its kind and the profiles activated, added
\* or removed by a command run on the persisted state `before`
Confirmation(cmd, args, before) ==
    LET active == load(before).active_profiles
    IN  IF cmd = "use" THEN [kind |-> "activation", profiles |-> args]
        ELSE IF cmd = "add"
        THEN [kind |-> "add", profiles |-> Filter(args, Names \ Range(active))]
        ELSE IF cmd = "remove"
        THEN [kind |-> "remove", profiles |-> Filter(args, Range(active))]
        ELSE [kind |-> "reset", profiles |-> <<>>]

\* C28: in the wrapper sequence (a successful --emit-shell run, then the
\* --emit-human run with the same arguments), when the --emit-shell run has
\* changed the persisted state the --emit-human run displays the confirmation
\* of that change: the profiles activated, added or removed, or for reset the
\* number of variables unset and restored
C28_HumanRunConfirmsChange ==
    [][(pc = AtIdle /\ pc'.at = "human" /\ stateFile' # stateFile) =>
          LET shown == Shown(stateFile', env', pc'.cmd, pc'.args)
              state == load(stateFile)
          IN  /\ [kind |-> shown.kind, profiles |-> shown.profiles]
                    = Confirmation(pc'.cmd, pc'.args, stateFile)
              /\ pc'.cmd = "reset" =>
                    shown.unset + shown.restored = Cardinality(DOMAIN state.variables)]_vars

\* C29: restoration is idempotent: a reset run right after a reset emits no
\* shell statement, changes neither the shell nor the state file, and leaves
\* the persisted state empty
C29_ResetTwice ==
    [][(pc = AtIdle /\ last.op = "reset" /\ pc'.cmd = "reset") =>
          /\ out' = <<>>
          /\ env' = env
          /\ stateFile' = stateFile
          /\ load(stateFile') = getEmptyState
          /\ pc'.at = "human"]_vars

\* C30: after remove of one or more active profiles run through the wrapper,
\* every variable set by a remaining active profile is set in the shell to the
\* value that resolving the remaining profiles gives (re-exported when its
\* value changes), and exactly the tracked variables set by no remaining
\* profile are unset
C30_RemoveKeepsRemaining ==
    [][(pc = AtIdle /\ pc'.cmd = "remove"
            /\ Filter(pc'.args, Range(load(stateFile).active_profiles)) # <<>>) =>
          LET state == load(stateFile)
              remaining == Filter(state.active_profiles, Names \ Range(pc'.args))
              resolved == resolve(localFiles, globalFiles, remaining)
              dropped == (DOMAIN state.variables) \ (DOMAIN resolved.variables)
          IN  /\ pc'.at = "human"
              /\ resolved.ok
              /\ \A k \in DOMAIN resolved.variables :
                    /\ k \in DOMAIN env'
                    /\ env'[k] = resolved.variables[k].value
                    /\ (k \in DOMAIN state.variables
                           /\ state.variables[k].value # resolved.variables[k].value)
                          => \E i \in 1..Len(out') : IsExport(out'[i]) /\ out'[i].key = k
              /\ {out'[i].key : i \in {j \in 1..Len(out') : IsUnset(out'[j])}} = dropped
              /\ \A k \in dropped : k \notin DOMAIN env'
              /\ load(stateFile').active_profiles = remaining]_vars


C31_MissingProfileFails ==
    [][/\ (pc = AtIdle /\ pc'.cmd \in {"use", "add"}
             /\ \E i \in 1..Len(pc'.args) :
                   ~profileExists(localFiles, globalFiles, pc'.args[i])) =>
            /\ pc'.at = "fallback"
            /\ last'.exit # 0
            /\ out' = <<>>
            /\ env' = env
            /\ stateFile' = stateFile
       /\ (pc.at = "fallback" /\ pc.cmd \in {"use", "add"}) =>
            /\ stateFile' = stateFile
            /\ env' = env
            /\ runCommand(localFiles, globalFiles, stateFile, env, shell, "default",
                          pc.cmd, pc.args).exit # 0
            /\ last'.human.kind =
                  "Profile not found: " \o firstMissing(localFiles, globalFiles, pc.args)]_vars

\* C31 witness: p2 is active, p1 exists and p3 does not; use p1 p3 has failed
\* in both runs of the wrapper and p2 is still the only active profile
C31_Witness ==
    /\ pc = AtIdle
    /\ last.op = "use"
    /\ last.exit # 0
    /\ last.human.kind = "Profile not found: p3"
    /\ globalFiles["p1"].exists
    /\ Persisted.active_profiles = <<"p2">>
    /\ DOMAIN env = {"K1", "K2"}

\* C32: while the profile files do not change, after any sequence of use, add,
\* remove, refresh and reset commands the persisted variables map equals
\* resolve(active_profiles).variables, value and source for every key, and is
\* empty when no profile is active
C32_VariablesAreResolution ==
    LET resolved == resolve(localFiles, globalFiles, Persisted.active_profiles)
    IN  /\ resolved.ok
        /\ Persisted.variables = resolved.variables
        /\ Persisted.active_profiles = <<>> => Persisted.variables = EmptyMap


\* C33: a snapshot entry exists only while its key is tracked: after any
\* sequence of use, add, remove, refresh and reset commands the key set of the
\* persisted snapshot equals the key set of the persisted variables
C33_SnapshotKeysAreVariableKeys ==
    DOMAIN Persisted.snapshot = DOMAIN Persisted.variables

\* the subcommands that take --emit-shell and --emit-human
StateCommands == {"use", "add", "remove", "refresh", "reset"}

\* argument lists of the --emit-human runs: one name, existing or not, and
\* two names
HumanArguments == {<<n>> : n \in Names} \cup {<<"p1", "p2">>, <<"p3", "p1">>}

\* C34: a run of use, add, remove, refresh or reset with --emit-human never
\* writes the session-state file, whatever the state, the profiles and the
\* arguments; in particular the second run of the wrapper leaves the state
\* that its --emit-shell run has saved
C34_EmitHumanNeverWrites ==
    /\ \A cmd \in StateCommands, args \in HumanArguments :
          runCommand(localFiles, globalFiles, stateFile, env, shell, "emit-human",
                     cmd, args).file = stateFile
    /\ pc.at = "human" =>
          runCommand(localFiles, globalFiles, stateFile, env, shell, "emit-human",
                     pc.cmd, pc.args).file = stateFile

\* C34 witness: use p1 p2 has run through the wrapper: the --emit-human run
\* has displayed the activation and the state saved by the --emit-shell run
\* is the persisted one
C34_Witness ==
    /\ pc = AtIdle
    /\ last.op = "use"
    /\ last.human = Message("activation", <<"p1", "p2">>, 0, 0)
    /\ Persisted.active_profiles = <<"p1", "p2">>
    /\ DOMAIN Persisted.variables = {"K1", "K2"}

\* C37: init --template T --name N with N different from T creates only the
\* profile N: the files of every other name, those of T included, are the
\* same after the run, in both locations
C37_InitKeepsTemplateNamedProfile ==
    [][(last'.op = "init" /\ last'.result /\ last'.name # last'.template) =>
          /\ \A m \in Names \ {last'.name} :
                localFiles'[m] = localFiles[m] /\ globalFiles'[m] = globalFiles[m]
          /\ profileExists(localFiles', globalFiles', last'.name)]_vars

\* C35: rm without --force never deletes the file of a profile that is in the
\* persisted active_profiles list: it exits with an error and the profile
\* files and the state are unchanged
C35_RmSparesActiveProfile ==
    [][(pc = AtIdle /\ last'.op = "rm" /\ ~last'.force
            /\ last'.name \in Range(load(stateFile).active_profiles)) =>
          /\ last'.exit # 0
          /\ localFiles' = localFiles
          /\ globalFiles' = globalFiles
          /\ stateFile' = stateFile]_vars

\* C35 witness: rm of the active profile p1, whose file exists, has exited
\* with an error
C35_Witness ==
    /\ last.op = "rm"
    /\ ~last.force
    /\ last.exit # 0
    /\ last.name = "p1"
    /\ "p1" \in Range(Persisted.active_profiles)
    /\ globalFiles["p1"].exists
    /\ localFiles["p1"].exists

\* C36: a run of refresh that updates the state (with --emit-shell or no
\* flag) keeps active_profiles and the existing snapshot entries and replaces
\* variables by the fresh resolution of the active profiles; when an active
\* profile no longer exists it exits non-zero, prints no shell statement and
\* leaves the persisted state and the shell unchanged; with no active profile
\* it changes nothing
C36_RefreshReResolves ==
    [][(pc = AtIdle /\ last'.op = "refresh") =>
          LET state == load(stateFile)
              active == state.active_profiles
              missing == \E i \in 1..Len(active) :
                            ~profileExists(localFiles, globalFiles, active[i])
              resolved == resolve(localFiles, globalFiles, active)
              after == load(stateFile')
          IN  /\ active = <<>> =>
                    /\ last'.exit = 0
                    /\ stateFile' = stateFile /\ env' = env
                    /\ last'.mode = "emit-shell" => out' = <<>>
              /\ (active # <<>> /\ missing) =>
                    /\ last'.exit # 0
                    /\ stateFile' = stateFile /\ env' = env
                    /\ last'.mode = "emit-shell" => out' = <<>>
              /\ (active # <<>> /\ ~missing /\ last'.mode # "emit-human") =>
                    /\ last'.exit = 0
                    /\ after.active_profiles = active
                    /\ after.variables = resolved.variables
                    /\ \A k \in DOMAIN state.snapshot :
                          k \in DOMAIN after.snapshot /\ after.snapshot[k] = state.snapshot[k]]_vars

\* C36 witness: p1 and p2 are active, the file of p2 was rewritten to set K1
\* only, and refresh --emit-shell has replaced the variables (K2 is no longer
\* tracked nor set) while the snapshot still holds the entry of K2
C36_Witness ==
    /\ last.op = "refresh"
    /\ last.mode = "emit-shell"
    /\ last.exit = 0
    /\ Persisted.active_profiles = <<"p1", "p2">>
    /\ DOMAIN Persisted.variables = {"K1"}
    /\ Persisted.variables["K1"] = [value |-> <<"b">>, source |-> "p2"]
    /\ "K2" \in DOMAIN Persisted.snapshot
    /\ \E i \in 1..Len(out) : IsUnset(out[i]) /\ out[i].key = "K2"

\* C38: also when two command invocations on the same state file interleave,
\* every state that ends up persisted has a snapshot entry for each key of
\* its variables
C38_InterleavedSnapshotCoversVariables ==
    stateFile.exists => DOMAIN Persisted.variables \subseteq DOMAIN Persisted.snapshot

====
